---- MODULE Spec2Model ----
(***************************************************************************)
(* Resistor colour-code calculator of the chat route:                      *)
(* computeResistorColorCode and extractOhmValues, with the JavaScript      *)
(* number arithmetic they run on (IEEE 754 binary64, round to nearest,     *)
(* ties to even).                                                          *)
(***************************************************************************)
EXTENDS Integers, Sequences, FiniteSets, TLC

(***************************************************************************)
(* Natural numbers of arbitrary size: little-endian sequences of limbs in  *)
(* base LimbBase, without high zero limbs.  They carry the 53-bit          *)
(* significands of the doubles the code computes with.                     *)
(***************************************************************************)
LimbBits == 20
LimbBase == 1048576

RECURSIVE Pow2(_)
Pow2(k) == IF k = 0 THEN 1 ELSE 2 * Pow2(k - 1)

RECURSIVE BNTrim(_)
BNTrim(X) ==
    IF Len(X) = 0 THEN X
    ELSE IF X[Len(X)] = 0 THEN BNTrim(SubSeq(X, 1, Len(X) - 1))
    ELSE X

BNFromSmall(n) == IF n = 0 THEN << >> ELSE << n >>

\* X * c + carry, for 0 <= c <= 1024 and carry < LimbBase
RECURSIVE BNMulAdd(_, _, _)
BNMulAdd(X, c, carry) ==
    IF Len(X) = 0 THEN BNFromSmall(carry)
    ELSE LET t == X[1] * c + carry
         IN  << t % LimbBase >> \o BNMulAdd(Tail(X), c, t \div LimbBase)

BNMulSmall(X, c) == BNTrim(BNMulAdd(X, c, 0))

\* quotient and remainder of X by d, for 1 <= d <= 1024; high limb first
RECURSIVE BNDivStep(_, _, _, _)
BNDivStep(X, d, i, rem) ==
    IF i = 0 THEN [q |-> << >>, r |-> rem]
    ELSE LET t    == rem * LimbBase + X[i]
             rest == BNDivStep(X, d, i - 1, t % d)
         IN  [q |-> rest.q \o << t \div d >>, r |-> rest.r]

\* a quotient without its high zero limbs
TrimQuotient(res) == [q |-> BNTrim(res.q), r |-> res.r]

BNDivSmall(X, d) == TrimQuotient(BNDivStep(X, d, Len(X), 0))

RECURSIVE BitLenSmall(_)
BitLenSmall(n) == IF n = 0 THEN 0 ELSE 1 + BitLenSmall(n \div 2)

BNBitLen(X) ==
    IF Len(X) = 0 THEN 0
    ELSE LimbBits * (Len(X) - 1) + BitLenSmall(X[Len(X)])

RECURSIVE BNShl(_, _)
BNShl(X, k) ==
    IF k = 0 \/ Len(X) = 0 THEN X
    ELSE IF k >= LimbBits THEN << 0 >> \o BNShl(X, k - LimbBits)
    ELSE IF k > 10 THEN BNShl(BNMulSmall(X, 1024), k - 10)
    ELSE BNMulSmall(X, Pow2(k))

RECURSIVE BNShr(_, _)
BNShr(X, k) ==
    IF k = 0 \/ Len(X) = 0 THEN X
    ELSE IF k >= LimbBits THEN BNShr(Tail(X), k - LimbBits)
    ELSE IF k > 10 THEN BNShr(BNDivSmall(X, 1024).q, k - 10)
    ELSE BNDivSmall(X, Pow2(k)).q

BNIsOdd(X) == Len(X) > 0 /\ X[1] % 2 = 1

\* X >= c for a small c (0 < c < LimbBase)
BNGeSmall(X, c) == Len(X) > 1 \/ (Len(X) = 1 /\ X[1] >= c)

\* the value of X when it fits one limb, LimbBase (larger than any digit
\* or exponent the code tests for) otherwise
BNToSmall(X) ==
    IF Len(X) = 0 THEN 0 ELSE IF Len(X) = 1 THEN X[1] ELSE LimbBase

RECURSIVE BNInc(_)
BNInc(X) ==
    IF Len(X) = 0 THEN << 1 >>
    ELSE IF X[1] + 1 < LimbBase THEN << X[1] + 1 >> \o Tail(X)
    ELSE << 0 >> \o BNInc(Tail(X))

(***************************************************************************)
(* JavaScript numbers.  A finite nonzero number is (-1)^neg * m * 2^e      *)
(* with m a 53-bit significand (subnormals are out of reach: the smallest  *)
(* magnitude a numeric token denotes is far above 2^-1022).                *)
(***************************************************************************)
SigBits == 53

NaN == [k |-> "nan", neg |-> FALSE, m |-> << >>, e |-> 0]
Infinity == [k |-> "inf", neg |-> FALSE, m |-> << >>, e |-> 0]
NegInfinity == [k |-> "inf", neg |-> TRUE, m |-> << >>, e |-> 0]
Zero == [k |-> "fin", neg |-> FALSE, m |-> << >>, e |-> 0]

\* the double of significand Q and exponent e, renormalised when a rounding
\* up has carried into a 54th bit
Packed(neg, Q, e) ==
    IF BNBitLen(Q) > SigBits
    THEN [k |-> "fin", neg |-> neg, m |-> BNShr(Q, 1), e |-> e + 1]
    ELSE [k |-> "fin", neg |-> neg, m |-> Q, e |-> e]

\* Q is X without its last s bits and H is X without its last s - 1 bits:
\* Q goes up when the first bit cut is set and either something nonzero
\* follows it or Q is odd
RoundCut(neg, X, Q, H, s, e, sticky) ==
    Packed(neg,
           IF BNIsOdd(H) /\ (sticky \/ BNShl(H, s - 1) # X \/ BNIsOdd(Q))
           THEN BNInc(Q) ELSE Q,
           e + s)

\* the rounding of an X of L bits
RoundBits(neg, X, L, e, sticky) ==
    IF L = 0 THEN Zero
    ELSE IF L <= SigBits
    THEN [k |-> "fin", neg |-> neg, m |-> BNShl(X, SigBits - L),
          e |-> e - (SigBits - L)]
    ELSE RoundCut(neg, X, BNShr(X, L - SigBits), BNShr(X, L - SigBits - 1),
                  L - SigBits, e, sticky)

\* round X * 2^e (plus a nonzero tail below X's last bit when sticky) to the
\* nearest double, ties to even
RoundNearestEven(neg, X, e, sticky) ==
    RoundBits(neg, X, BNBitLen(X), e, sticky)

\* x / d for a finite x and d in {10, 100, 1000}
NumDiv(x, d) ==
    IF x.k # "fin" \/ Len(x.m) = 0 THEN x
    ELSE LET dv == BNDivSmall(BNShl(x.m, 12), d)
         IN  RoundNearestEven(x.neg, dv.q, x.e - 12, dv.r # 0)

RECURSIVE BNMulPow10(_, _)
BNMulPow10(X, k) == IF k = 0 THEN X ELSE BNMulPow10(BNMulSmall(X, 10), k - 1)

\* x * 10^k for a finite x: the exact product, rounded once
NumMulPow10(x, k) ==
    IF x.k # "fin" \/ Len(x.m) = 0 THEN x
    ELSE RoundNearestEven(x.neg, BNMulPow10(x.m, k), x.e, FALSE)

\* Math.floor of a finite x >= 0, as a natural number
NumFloor(x) ==
    IF Len(x.m) = 0 THEN << >>
    ELSE IF x.e >= 0 THEN BNShl(x.m, x.e)
    ELSE BNShr(x.m, 0 - x.e)

\* x >= c and x < c for a small positive integer c
NumGe(x, c) ==
    CASE x.k = "nan" -> FALSE
      [] x.k = "inf" -> ~x.neg
      [] OTHER       -> ~x.neg /\ BNGeSmall(NumFloor(x), c)

NumLt(x, c) ==
    CASE x.k = "nan" -> FALSE
      [] x.k = "inf" -> x.neg
      [] OTHER       -> x.neg \/ ~BNGeSmall(NumFloor(x), c)

\* X >= Y for natural numbers
RECURSIVE BNGe(_, _)
BNGe(X, Y) ==
    IF Len(X) # Len(Y) THEN Len(X) > Len(Y)
    ELSE IF Len(X) = 0 THEN TRUE
    ELSE IF X[Len(X)] # Y[Len(Y)] THEN X[Len(X)] > Y[Len(Y)]
    ELSE BNGe(SubSeq(X, 1, Len(X) - 1), SubSeq(Y, 1, Len(Y) - 1))

\* the decimal digits of a natural number, most significant first
RECURSIVE DecDigits(_)
DecDigits(X) ==
    IF Len(X) = 0 THEN << >>
    ELSE LET dv == BNDivSmall(X, 10) IN DecDigits(dv.q) \o << dv.r >>

isFinite(x) == x.k = "fin"

\* x <= 0
NumLe0(x) ==
    CASE x.k = "nan" -> FALSE
      [] x.k = "inf" -> x.neg
      [] OTHER       -> x.neg \/ Len(x.m) = 0

\* |x| < |y| for finite numbers: significands have SigBits bits, so the
\* exponent decides first
MagLess(x, y) ==
    IF Len(y.m) = 0 THEN FALSE
    ELSE IF Len(x.m) = 0 THEN TRUE
    ELSE IF x.e # y.e THEN x.e < y.e
    ELSE ~BNGe(x.m, y.m)

\* x < y
NumLess(x, y) ==
    CASE x.k = "nan" \/ y.k = "nan" -> FALSE
      [] x.k = "inf" -> x.neg /\ ~(y.k = "inf" /\ y.neg)
      [] y.k = "inf" -> ~y.neg
      [] x.neg /\ ~y.neg -> Len(x.m) # 0 \/ Len(y.m) # 0
      [] ~x.neg /\ y.neg -> FALSE
      [] x.neg /\ y.neg -> MagLess(y, x)
      [] OTHER -> MagLess(x, y)

\* Math.round of a finite x >= 0, as a natural number: floor(x + 1/2)
NumRound(x) ==
    IF Len(x.m) = 0 THEN << >>
    ELSE IF BNIsOdd(NumFloor([x EXCEPT !.e = x.e + 1]))
    THEN BNInc(NumFloor(x))
    ELSE NumFloor(x)

(***************************************************************************)
(* Text is a sequence of one-character strings.                            *)
(***************************************************************************)
DigitChars == {"0", "1", "2", "3", "4", "5", "6", "7", "8", "9"}

DigitVal(c) ==
    CASE c = "0" -> 0 [] c = "1" -> 1 [] c = "2" -> 2 [] c = "3" -> 3
      [] c = "4" -> 4 [] c = "5" -> 5 [] c = "6" -> 6 [] c = "7" -> 7
      [] c = "8" -> 8 [] c = "9" -> 9

\* the natural number a run of decimal digits s[from..to] denotes, added to
\* the digits already read (acc); three digits are read at a time while
\* there are three
RECURSIVE BNFromDigits(_, _, _, _)
BNFromDigits(s, from, to, acc) ==
    IF from > to THEN acc
    ELSE IF from + 2 <= to
    THEN BNFromDigits(s, from + 3, to,
                      BNTrim(BNMulAdd(acc, 1000,
                                      100 * DigitVal(s[from])
                                          + 10 * DigitVal(s[from + 1])
                                          + DigitVal(s[from + 2]))))
    ELSE BNFromDigits(s, from + 1, to,
                      BNTrim(BNMulAdd(acc, 10, DigitVal(s[from]))))

\* floor(X / 10^f) together with whether anything was cut off; three
\* decimal places are cut at a time while there are three
RECURSIVE BNDivPow10(_, _, _)
BNDivPow10(X, f, sticky) ==
    IF f = 0 THEN [q |-> X, sticky |-> sticky]
    ELSE LET n  == IF f >= 3 THEN 3 ELSE 1
             dv == BNDivSmall(X, IF n = 3 THEN 1000 ELSE 10)
         IN  IF dv.r # 0 THEN BNDivPow10(dv.q, f - n, TRUE)
             ELSE BNDivPow10(dv.q, f - n, sticky)

\* parseFloat of a token  digits  or  digits "." digits : the double
\* nearest to the decimal value
parseFloat(tok) ==
    LET dot  == IF \E i \in 1..Len(tok) : tok[i] = "."
                THEN CHOOSE i \in 1..Len(tok) : tok[i] = "." ELSE Len(tok) + 1
        f    == IF dot > Len(tok) THEN 0 ELSE Len(tok) - dot
        N    == BNFromDigits(tok, dot + 1, Len(tok),
                             BNFromDigits(tok, 1, dot - 1, << >>))
        dv   == BNDivPow10(BNShl(N, 80), f, FALSE)
    IN  RoundNearestEven(FALSE, dv.q, 0 - 80, dv.sticky)

(***************************************************************************)
(* computeResistorColorCode                                                *)
(***************************************************************************)
digitColor ==
    << "Black", "Brown", "Red", "Orange", "Yellow",
       "Green", "Blue", "Violet", "Grey", "White" >>

multiplierColor ==
    << "Black", "Brown", "Red", "Orange", "Yellow",
       "Green", "Blue", "Violet", "Grey", "White" >>

Gold == "Gold (±5%)"

\* table[i] of a JavaScript array (indices from 0): undefined off its ends
ArrayAt(table, i) ==
    IF i >= 0 /\ i < Len(table) THEN table[i + 1] ELSE "undefined"

Null == [isNull |-> TRUE, fourBand |-> << >>, fiveBand |-> << >>]

\* the second digit rounded to nearest instead of truncated
D2_4Rounded(m4) ==
    ((BNToSmall(NumFloor(NumMulPow10(m4, 1))) + 5) \div 10) % 10

\* Math.floor(m / 10) and Math.floor(m % 10) of the 4-band mantissa
D1_4(m4) == BNToSmall(NumFloor(NumDiv(m4, 10)))
D2_4(m4) == BNDivSmall(NumFloor(m4), 10).r

\* Math.floor(m / 100) % 10, Math.floor(m / 10) % 10, Math.floor(m % 10)
D1_5(m5) == BNDivSmall(NumFloor(NumDiv(m5, 100)), 10).r
D2_5(m5) == BNDivSmall(NumFloor(NumDiv(m5, 10)), 10).r
\* the ones digit read from the tens place
D3_5Tens(m5) == BNDivSmall(NumFloor(NumDiv(m5, 10)), 10).r

D3_5(m5) == BNDivSmall(NumFloor(m5), 10).r

\* the 4-band range test without the upper limit of the multiplier
OutOfRange4NoUpper(d1, d2, mult4) ==
    d1 < 0 \/ d1 > 9 \/ d2 < 0 \/ d2 > 9 \/ mult4 < 0

\* the range test of the 4-band digits and multiplier
OutOfRange4(d1, d2, mult4) ==
    d1 < 0 \/ d1 > 9 \/ d2 < 0 \/ d2 > 9 \/ mult4 < 0 \/ mult4 > 9

\* the 5-band range test without the lower limit of the multiplier
OutOfRange5NoLower(d1, d2, d3, mult5) ==
    (\E d \in {d1, d2, d3} : d < 0 \/ d > 9) \/ mult5 > 9

\* the range test of the 5-band digits and multiplier
OutOfRange5(d1, d2, d3, mult5) ==
    (\E d \in {d1, d2, d3} : d < 0 \/ d > 9) \/ mult5 < 0 \/ mult5 > 9

\* the locals of one call, at its entry
NewColorCall(ohms) ==
    [pc |-> "check", ohms |-> ohms,
     p4 |-> 0, m4 |-> Zero, fourBand |-> << >>,
     p5 |-> 0, m5 |-> Zero, fiveBand |-> << >>,
     result |-> Null]

\* the entry test without isFinite
CheckInputStepNoFinite(s) ==
    IF NumLe0(s.ohms)
    THEN [s EXCEPT !.pc = "done", !.result = Null]
    ELSE [s EXCEPT !.pc = "norm4down", !.p4 = 0, !.m4 = s.ohms]

\* if (!isFinite(ohms) || ohms <= 0) return null;  let p4 = 0; let m4 = ohms;
CheckInputStep(s) ==
    IF ~isFinite(s.ohms) \/ NumLe0(s.ohms)
    THEN [s EXCEPT !.pc = "done", !.result = Null]
    ELSE [s EXCEPT !.pc = "norm4down", !.p4 = 0, !.m4 = s.ohms]

\* while (m4 >= 100) { m4 /= 10; p4++; }
Norm4DownStep(s) ==
    IF NumGe(s.m4, 100)
    THEN [s EXCEPT !.m4 = NumDiv(s.m4, 10), !.p4 = s.p4 + 1]
    ELSE [s EXCEPT !.pc = "norm4up"]

\* while (m4 < 10) { m4 *= 10; p4--; }
Norm4UpStep(s) ==
    IF NumLt(s.m4, 10)
    THEN [s EXCEPT !.m4 = NumMulPow10(s.m4, 1), !.p4 = s.p4 - 1]
    ELSE [s EXCEPT !.pc = "band4"]

\* the 4-band digits, range test and colours;  let p5 = 0; let m5 = ohms;
Band4Step(s) ==
    LET d1_4  == D1_4(s.m4)
        d2_4  == D2_4(s.m4)
        mult4 == s.p4
    IN  IF OutOfRange4(d1_4, d2_4, mult4)
        THEN [s EXCEPT !.pc = "done", !.result = Null]
        ELSE [s EXCEPT !.pc = "norm5down",
                       !.fourBand = << ArrayAt(digitColor, d1_4),
                                       ArrayAt(digitColor, d2_4),
                                       ArrayAt(multiplierColor, mult4),
                                       Gold >>,
                       !.p5 = 0, !.m5 = s.ohms]

\* the 5-band division loop without p5++
Norm5DownStepNoCount(s) ==
    IF NumGe(s.m5, 1000)
    THEN [s EXCEPT !.m5 = NumDiv(s.m5, 10)]
    ELSE [s EXCEPT !.pc = "norm5up"]

\* while (m5 >= 1000) { m5 /= 10; p5++; }
Norm5DownStep(s) ==
    IF NumGe(s.m5, 1000)
    THEN [s EXCEPT !.m5 = NumDiv(s.m5, 10), !.p5 = s.p5 + 1]
    ELSE [s EXCEPT !.pc = "norm5up"]

\* while (m5 < 100) { m5 *= 10; p5--; }
Norm5UpStep(s) ==
    IF NumLt(s.m5, 100)
    THEN [s EXCEPT !.m5 = NumMulPow10(s.m5, 1), !.p5 = s.p5 - 1]
    ELSE [s EXCEPT !.pc = "band5"]

\* the 5-band digits, range test and colours;  return { fourBand, fiveBand }
Band5Step(s) ==
    LET d1_5  == D1_5(s.m5)
        d2_5  == D2_5(s.m5)
        d3_5  == D3_5(s.m5)
        mult5 == s.p5
        five  == << ArrayAt(digitColor, d1_5), ArrayAt(digitColor, d2_5),
                    ArrayAt(digitColor, d3_5),
                    ArrayAt(multiplierColor, mult5), Gold >>
    IN  IF OutOfRange5(d1_5, d2_5, d3_5, mult5)
        THEN [s EXCEPT !.pc = "done", !.result = Null]
        ELSE [s EXCEPT !.pc = "done", !.fiveBand = five,
                       !.result = [isNull |-> FALSE, fourBand |-> s.fourBand,
                                   fiveBand |-> five]]

\* one call run from entry to return, with nothing else running
RECURSIVE RunColorCall(_)
RunColorCall(s) ==
    CASE s.pc = "check"     -> RunColorCall(CheckInputStep(s))
      [] s.pc = "norm4down" -> RunColorCall(Norm4DownStep(s))
      [] s.pc = "norm4up"   -> RunColorCall(Norm4UpStep(s))
      [] s.pc = "band4"     -> RunColorCall(Band4Step(s))
      [] s.pc = "norm5down" -> RunColorCall(Norm5DownStep(s))
      [] s.pc = "norm5up"   -> RunColorCall(Norm5UpStep(s))
      [] s.pc = "band5"     -> RunColorCall(Band5Step(s))
      [] OTHER              -> s

computeResistorColorCode(ohms) == RunColorCall(NewColorCall(ohms)).result

(***************************************************************************)
(* extractOhmValues                                                        *)
(***************************************************************************)
IsDigit(ch) == ch \in DigitChars

\* \s of the texts modelled here
IsSpace(ch) == ch \in {" ", "\n", "\t"}

\* first index >= i that does not hold a digit (\d+ is greedy)
RECURSIVE DigitsEnd(_, _)
DigitsEnd(text, i) ==
    IF i <= Len(text) /\ IsDigit(text[i]) THEN DigitsEnd(text, i + 1) ELSE i

\* first index >= i that does not hold white space (\s* is greedy)
RECURSIVE SpaceEnd(_, _)
SpaceEnd(text, i) ==
    IF i <= Len(text) /\ IsSpace(text[i]) THEN SpaceEnd(text, i + 1) ELSE i

\* first index >= i that holds a digit, Len(text) + 1 when there is none
RECURSIVE FirstDigit(_, _)
FirstDigit(text, i) ==
    IF i <= Len(text) /\ ~IsDigit(text[i]) THEN FirstDigit(text, i + 1) ELSE i

\* does word stand in text at index i
StartsWith(text, i, word) ==
    /\ i + Len(word) - 1 <= Len(text)
    /\ \A j \in 1..Len(word) : text[i + j - 1] = word[j]

\* the alternatives of (k|K|M|mega|G|g), in the order the regex tries them
SuffixAlternatives ==
    << << "k" >>, << "K" >>, << "M" >>, << "m", "e", "g", "a" >>,
       << "G" >>, << "g" >> >>

\* the first alternative that stands at index i, the empty text when none
\* does (the group is optional)
RECURSIVE SuffixAt(_, _, _)
SuffixAt(text, i, n) ==
    IF n > Len(SuffixAlternatives) THEN << >>
    ELSE IF StartsWith(text, i, SuffixAlternatives[n])
    THEN SuffixAlternatives[n]
    ELSE SuffixAt(text, i, n + 1)

\* the next match of  /(\d+(?:\.\d+)?)\s*(k|K|M|mega|G|g)?/g  at or after
\* index pos: m1 and m2 are its groups, last the index after it
NextMatch(text, pos) ==
    LET i  == FirstDigit(text, pos)
        j  == DigitsEnd(text, i)
        j2 == IF j + 1 <= Len(text) /\ text[j] = "." /\ IsDigit(text[j + 1])
              THEN DigitsEnd(text, j + 1) ELSE j
        w  == SpaceEnd(text, j2)
        m2 == SuffixAt(text, w, 1)
    IN  IF i > Len(text)
        THEN [found |-> FALSE, m1 |-> << >>, m2 |-> << >>, last |-> pos]
        ELSE [found |-> TRUE, m1 |-> SubSeq(text, i, j2 - 1), m2 |-> m2,
              last |-> w + Len(m2)]

UpperLetters ==
    << "A", "B", "C", "D", "E", "F", "G", "H", "I", "J", "K", "L", "M",
       "N", "O", "P", "Q", "R", "S", "T", "U", "V", "W", "X", "Y", "Z" >>

LowerLetters ==
    << "a", "b", "c", "d", "e", "f", "g", "h", "i", "j", "k", "l", "m",
       "n", "o", "p", "q", "r", "s", "t", "u", "v", "w", "x", "y", "z" >>

UpperSet == { UpperLetters[n] : n \in 1..26 }

LowerOf ==
    [ch \in UpperSet |->
        LowerLetters[CHOOSE n \in 1..26 : UpperLetters[n] = ch]]

toLowerCase(w) ==
    [i \in 1..Len(w) |-> IF w[i] \in UpperSet THEN LowerOf[w[i]] ELSE w[i]]

\* the factor without the 'mega' alternative
FactorExpNoMega(suf) ==
    IF suf = << "k" >> THEN 3
    ELSE IF suf = << "m" >> THEN 6
    ELSE IF suf = << "g" >> THEN 9
    ELSE 0

\* the decimal exponent of
\* suf === 'k' ? 1e3 : suf === 'm' || suf === 'mega' ? 1e6 : suf === 'g' ? 1e9 : 1
FactorExp(suf) ==
    IF suf = << "k" >> THEN 3
    ELSE IF suf = << "m" >> \/ suf = << "m", "e", "g", "a" >> THEN 6
    ELSE IF suf = << "g" >> THEN 9
    ELSE 0

\* the locals of one call, at its entry
NewExtractCall(text) ==
    [pc |-> "scan", text |-> text, pos |-> 1, out |-> << >>, seen |-> {},
     result |-> << >>]

\* the loop body without the seen test
MatchStepNoSeen(s) ==
    LET m   == NextMatch(s.text, s.pos)
        n   == parseFloat(m.m1)
        suf == toLowerCase(m.m2)
        val == NumMulPow10(n, FactorExp(suf))
    IN  [s EXCEPT !.pos = m.last, !.seen = s.seen \cup {val},
                  !.out = Append(s.out, val)]

\* one turn of  for (const m of text.matchAll(re)) { ... }
MatchStep(s) ==
    LET m   == NextMatch(s.text, s.pos)
        n   == parseFloat(m.m1)
        suf == toLowerCase(m.m2)
        val == NumMulPow10(n, FactorExp(suf))
    IN  IF ~isFinite(n) THEN [s EXCEPT !.pos = m.last]
        ELSE IF val \notin s.seen
        THEN [s EXCEPT !.pos = m.last, !.seen = s.seen \cup {val},
                       !.out = Append(s.out, val)]
        ELSE [s EXCEPT !.pos = m.last]

\* return out;
ReturnStep(s) == [s EXCEPT !.pc = "done", !.result = s.out]

RECURSIVE RunExtractCall(_)
RunExtractCall(s) ==
    IF s.pc # "scan" THEN s
    ELSE IF NextMatch(s.text, s.pos).found THEN RunExtractCall(MatchStep(s))
    ELSE RunExtractCall(ReturnStep(s))

extractOhmValues(text) == RunExtractCall(NewExtractCall(text)).result

(***************************************************************************)
(* Inputs                                                                  *)
(***************************************************************************)
MaxLead == 3
MaxPad == 9
MaxPieces == 5
NumCallers == 2

\* the resistances the testable properties name
NamedTokens ==
    { << "1" >>,
      << "1", "0" >>,
      << "4", "7" >>,
      << "2", "2", "0" >>,
      << "3", "3", "0" >>,
      << "1", "0", "0", "0" >>,
      << "2", "2", "0", "0" >>,
      << "4", "7", "0", "0" >>,
      << "1", "0", "0", "0", "0" >>,
      << "1", "0", "0", "0", "0", "0" >>,
      << "1", "0", "0", "0", "0", "0", "0" >> }

LeadDigits == {"0", "1", "4", "7", "9"}

RECURSIVE DigitStrings(_)
DigitStrings(n) ==
    IF n = 0 THEN { << >> }
    ELSE { Append(t, d) : t \in DigitStrings(n - 1), d \in LeadDigits }

RECURSIVE Repeat(_, _)
Repeat(ch, n) == IF n = 0 THEN << >> ELSE << ch >> \o Repeat(ch, n - 1)

\* integers of up to MaxLead + MaxPad digits: leading digits, then zeros or
\* nines
IntegerTokens ==
    { lead \o Repeat(fill, pad) :
        lead \in { t \in UNION { DigitStrings(n) : n \in 1..MaxLead } :
                     t[1] # "0" },
        fill \in {"0", "9"}, pad \in 0..MaxPad }

\* tokens that are scaled by every magnitude suffix
ScaledTokens ==
    { << "4", ".", "7" >>,
      << "0", ".", "0", "0", "1" >>,
      << "2", ".", "0", "1" >>,
      << "9", "9", ".", "9" >>,
      << "4", "7", "5", "0" >>,
      << "1" >> }

Negate(x) == [x EXCEPT !.neg = TRUE]

ColorInputs ==
    { NaN, Infinity, NegInfinity, Zero,
      Negate(parseFloat(<< "5" >>)), Negate(parseFloat(<< "0", ".", "5" >>)) }
    \cup { parseFloat(t) : t \in NamedTokens \cup IntegerTokens }
    \cup { NumMulPow10(parseFloat(t), k) : t \in ScaledTokens, k \in {0, 3, 6, 9} }

Pieces ==
    { << "2", "2", "0" >>, << "1" >>, << "1", "0", "0", "0" >>, << "4", ".", "7" >>, << "k" >>, << " " >> }

RECURSIVE PieceTexts(_)
PieceTexts(n) ==
    IF n = 0 THEN { << >> }
    ELSE { t \o q : t \in PieceTexts(n - 1), q \in Pieces }

SuffixTexts ==
    { num \o gap \o suf \o rest :
        num  \in { << "4", ".", "7" >>, << "2", "2", "0" >>, << "2", ".", "0", "1" >> },
        gap  \in { << >>, << " " >> },
        suf  \in { SuffixAlternatives[n] : n \in 1..Len(SuffixAlternatives) }
                 \cup { << >>, << "m" >>, << "o", "h", "m" >> },
        rest \in { << >>, << " ", "a", "n", "d", " ", "2", "0", "1", "0", " ", "o", "h", "m" >> } }

ExtractInputs ==
    UNION { PieceTexts(n) : n \in 0..MaxPieces }
    \cup SuffixTexts
    \cup { << "r", "e", "s", "i", "s", "t", "o", "r", " ", "o", "f", " ", "4", ".", "7", "k", " ", "a", "n", "d", " ", "2", "2", "0", " ", "o", "h", "m" >>,
           << "2", "2", "0", " ", "2", "2", "0", " ", "o", "h", "m" >> }

\* the calls that run interleaved
ConcColorInputs ==
    { NaN, parseFloat(<< "4", "7" >>), parseFloat(<< "2", "2", "0" >>),
      parseFloat(<< "4", "7", "5", "0" >>) }

ConcExtractInputs ==
    { << "2", "2", "0", " ", "2", "2", "0" >>, << "1", "k", " ", "1", "0", "0", "0", " ", "4", ".", "7" >> }

(***************************************************************************)
(* The calls in progress: cc[c] holds the locals of a call of              *)
(* computeResistorColorCode, ex[c] those of a call of extractOhmValues.    *)
(* The chat route: env holds process.env and what the services outside the *)
(* process answer, req the locals of a POST request, llm those of a call   *)
(* of summarizeAndAnswer and web those of a call of tavilyEduSearch.  The  *)
(* context-or-general endpoint has req and llm for its own POST request    *)
(* and its call of generateAnswer.                                         *)
(***************************************************************************)
VARIABLES cc, ex, env, req, llm, web

vars == << cc, ex, env, req, llm, web >>

\* the variables of the chat route
route == << env, req, llm, web >>

\* the variables of the calculator calls
calculator == << cc, ex >>

\* no call in progress
NoCall == [pc |-> "none"]

NoRoute == env = NoCall /\ req = NoCall /\ llm = NoCall /\ web = NoCall

\* one call, of either function, on any input
Init ==
    /\ \/ /\ \E ohms \in ColorInputs : cc = << NewColorCall(ohms) >>
          /\ ex = << >>
       \/ /\ cc = << >>
          /\ \E text \in ExtractInputs : ex = << NewExtractCall(text) >>
    /\ NoRoute

\* NumCallers calls, of either function
InitConc ==
    /\ \E a \in 0..NumCallers :
          /\ cc \in [1..a -> { NewColorCall(o) : o \in ConcColorInputs }]
          /\ ex \in [1..(NumCallers - a) ->
                       { NewExtractCall(t) : t \in ConcExtractInputs }]
    /\ NoRoute

CheckInput(c) ==
    /\ cc[c].pc = "check"
    /\ cc' = [cc EXCEPT ![c] = CheckInputStep(cc[c])]
    /\ UNCHANGED << ex, route >>

\* m4 and p4 declared outside the function, so shared by all calls
Norm4DownShared(c) ==
    /\ cc[c].pc = "norm4down"
    /\ LET s == Norm4DownStep(cc[c])
       IN  cc' = [d \in DOMAIN cc |->
                    IF d = c THEN s
                    ELSE [cc[d] EXCEPT !.m4 = s.m4, !.p4 = s.p4]]
    /\ UNCHANGED << ex, route >>

Norm4Down(c) ==
    /\ cc[c].pc = "norm4down"
    /\ cc' = [cc EXCEPT ![c] = Norm4DownStep(cc[c])]
    /\ UNCHANGED << ex, route >>

Norm4Up(c) ==
    /\ cc[c].pc = "norm4up"
    /\ cc' = [cc EXCEPT ![c] = Norm4UpStep(cc[c])]
    /\ UNCHANGED << ex, route >>

Band4(c) ==
    /\ cc[c].pc = "band4"
    /\ cc' = [cc EXCEPT ![c] = Band4Step(cc[c])]
    /\ UNCHANGED << ex, route >>

Norm5Down(c) ==
    /\ cc[c].pc = "norm5down"
    /\ cc' = [cc EXCEPT ![c] = Norm5DownStep(cc[c])]
    /\ UNCHANGED << ex, route >>

Norm5Up(c) ==
    /\ cc[c].pc = "norm5up"
    /\ cc' = [cc EXCEPT ![c] = Norm5UpStep(cc[c])]
    /\ UNCHANGED << ex, route >>

Band5(c) ==
    /\ cc[c].pc = "band5"
    /\ cc' = [cc EXCEPT ![c] = Band5Step(cc[c])]
    /\ UNCHANGED << ex, route >>

Match(c) ==
    /\ ex[c].pc = "scan"
    /\ NextMatch(ex[c].text, ex[c].pos).found
    /\ ex' = [ex EXCEPT ![c] = MatchStep(ex[c])]
    /\ UNCHANGED << cc, route >>

Return(c) ==
    /\ ex[c].pc = "scan"
    /\ ~NextMatch(ex[c].text, ex[c].pos).found
    /\ ex' = [ex EXCEPT ![c] = ReturnStep(ex[c])]
    /\ UNCHANGED << cc, route >>

Next ==
    \/ \E c \in DOMAIN cc : CheckInput(c)
    \/ \E c \in DOMAIN cc : Norm4Down(c)
    \/ \E c \in DOMAIN cc : Norm4Up(c)
    \/ \E c \in DOMAIN cc : Band4(c)
    \/ \E c \in DOMAIN cc : Norm5Down(c)
    \/ \E c \in DOMAIN cc : Norm5Up(c)
    \/ \E c \in DOMAIN cc : Band5(c)
    \/ \E c \in DOMAIN ex : Match(c)
    \/ \E c \in DOMAIN ex : Return(c)

Spec == Init /\ [][Next]_vars

SpecConc == InitConc /\ [][Next]_vars

(***************************************************************************)
(* Regular expressions of the chat route.  A pattern is a sequence of      *)
(* atoms; MatchEnds gives every index a match of the pattern that starts   *)
(* at index i can end before, which decides RegExp.prototype.test.         *)
(***************************************************************************)
Atom(t, w, ps, n) == [t |-> t, w |-> w, ps |-> ps, n |-> n]

\* the literal text w
Lit(w) == Atom("lit", w, {}, 0)

\* \s* (n = 0) and \s+ (n = 1)
Ws(n) == Atom("ws", << >>, {}, n)

\* (p1|p2|...)
Alt(ps) == Atom("alt", << >>, ps, 0)

\* (p)?
Opt(p) == Alt({ << >>, p })

\* [chars]* for a set of characters written as a text
Star(w) == Atom("star", w, {}, 0)

\* .*
AnyRun == Atom("any", << >>, {}, 0)

\* \b, ^ and $
Wb == Atom("wb", << >>, {}, 0)
Bol == Atom("bol", << >>, {}, 0)
Eol == Atom("eol", << >>, {}, 0)

\* \w
IsWordChar(ch) ==
    \/ IsDigit(ch) \/ ch = "_"
    \/ ch \in UpperSet
    \/ ch \in { LowerLetters[n] : n \in 1..26 }

WordAt(text, i) == i >= 1 /\ i <= Len(text) /\ IsWordChar(text[i])

\* first index >= i that holds a line terminator ( . does not match it)
RECURSIVE LineEnd(_, _)
LineEnd(text, i) ==
    IF i <= Len(text) /\ text[i] # "\n" THEN LineEnd(text, i + 1) ELSE i

\* first index >= i that holds no character of w
RECURSIVE ClassEnd(_, _, _)
ClassEnd(text, i, w) ==
    IF i <= Len(text) /\ \E n \in 1..Len(w) : w[n] = text[i]
    THEN ClassEnd(text, i + 1, w) ELSE i

RECURSIVE MatchEnds(_, _, _, _)
MatchEnds(text, i, pat, n) ==
    IF n > Len(pat) THEN {i}
    ELSE LET a == pat[n]
             after ==
                 CASE a.t = "lit" ->
                        IF StartsWith(text, i, a.w) THEN {i + Len(a.w)} ELSE {}
                   [] a.t = "ws" -> (i + a.n)..SpaceEnd(text, i)
                   [] a.t = "star" -> i..ClassEnd(text, i, a.w)
                   [] a.t = "any" -> i..LineEnd(text, i)
                   [] a.t = "alt" ->
                        UNION { MatchEnds(text, i, p, 1) : p \in a.ps }
                   [] a.t = "wb" ->
                        IF WordAt(text, i - 1) # WordAt(text, i) THEN {i} ELSE {}
                   [] a.t = "bol" -> IF i = 1 THEN {i} ELSE {}
                   [] a.t = "eol" -> IF i = Len(text) + 1 THEN {i} ELSE {}
         IN  UNION { MatchEnds(text, j, pat, n + 1) : j \in after }

\* pat.test(text)
RegexTest(pat, text) ==
    \E i \in 1..(Len(text) + 1) : MatchEnds(text, i, pat, 1) # {}

\* pat.test(text) for a pattern with the i flag, written in lower case
RegexTestI(pat, text) == RegexTest(pat, toLowerCase(text))

\* one of the words stands somewhere in text, letter case ignored
ContainsAnyI(words, text) == RegexTestI(<< Alt({ << Lit(w) >> : w \in words }) >>, text)

\* String.prototype.trim
TrimStart(text) == SubSeq(text, SpaceEnd(text, 1), Len(text))

RECURSIVE TrimEnd(_)
TrimEnd(text) ==
    IF Len(text) > 0 /\ IsSpace(text[Len(text)])
    THEN TrimEnd(SubSeq(text, 1, Len(text) - 1)) ELSE text

trim(text) == TrimEnd(TrimStart(text))

\* /^(hi|hello|hey|hlo|hola|namaste|good\s*(morning|afternoon|evening)|yo|sup)[!.?,\s]*$/i
greetRe ==
    << Bol,
       Alt({ << Lit(<< "h", "i" >>) >>, << Lit(<< "h", "e", "l", "l", "o" >>) >>, << Lit(<< "h", "e", "y" >>) >>,
             << Lit(<< "h", "l", "o" >>) >>, << Lit(<< "h", "o", "l", "a" >>) >>, << Lit(<< "n", "a", "m", "a", "s", "t", "e" >>) >>,
             << Lit(<< "g", "o", "o", "d" >>), Ws(0),
                Alt({ << Lit(<< "m", "o", "r", "n", "i", "n", "g" >>) >>, << Lit(<< "a", "f", "t", "e", "r", "n", "o", "o", "n" >>) >>,
                      << Lit(<< "e", "v", "e", "n", "i", "n", "g" >>) >> }) >>,
             << Lit(<< "y", "o" >>) >>, << Lit(<< "s", "u", "p" >>) >> }),
       Star(<< "!", ".", "?", ",", " ", "\n", "\t" >>),
       Eol >>

\* /\b(more\s+details?|from\s+web|explanation\s+from\s+web)\b/i
forceWebRe ==
    << Wb,
       Alt({ << Lit(<< "m", "o", "r", "e" >>), Ws(1), Lit(<< "d", "e", "t", "a", "i", "l" >>), Opt(<< Lit(<< "s" >>) >>) >>,
             << Lit(<< "f", "r", "o", "m" >>), Ws(1), Lit(<< "w", "e", "b" >>) >>,
             << Lit(<< "e", "x", "p", "l", "a", "n", "a", "t", "i", "o", "n" >>), Ws(1), Lit(<< "f", "r", "o", "m" >>), Ws(1),
                Lit(<< "w", "e", "b" >>) >> }),
       Wb >>

\* (color\s*cod(?:e|ing)|band\s*colou?r)
colorCodeAlt ==
    Alt({ << Lit(<< "c", "o", "l", "o", "r" >>), Ws(0), Lit(<< "c", "o", "d" >>),
             Alt({ << Lit(<< "e" >>) >>, << Lit(<< "i", "n", "g" >>) >> }) >>,
          << Lit(<< "b", "a", "n", "d" >>), Ws(0), Lit(<< "c", "o", "l", "o" >>), Opt(<< Lit(<< "u" >>) >>),
             Lit(<< "r" >>) >> })

\* /(color\s*cod(?:e|ing)|band\s*colou?r)/i
wantsColorCodeRe == << colorCodeAlt >>

\* /(resistor)?.*(color\s*cod(?:e|ing)|band\s*colou?r)/i
wantColorRe == << Opt(<< Lit(<< "r", "e", "s", "i", "s", "t", "o", "r" >>) >>), AnyRun, colorCodeAlt >>

\* /(image|photo|figure|diagram|symbol|pic|picture)/i
asksImageWords ==
    { << "i", "m", "a", "g", "e" >>, << "p", "h", "o", "t", "o" >>, << "f", "i", "g", "u", "r", "e" >>, << "d", "i", "a", "g", "r", "a", "m" >>, << "s", "y", "m", "b", "o", "l" >>, << "p", "i", "c" >>,
      << "p", "i", "c", "t", "u", "r", "e" >> }

\* /(color|colour|band)/i
colorTerms == { << "c", "o", "l", "o", "r" >>, << "c", "o", "l", "o", "u", "r" >>, << "b", "a", "n", "d" >> }

\* /i\s*don'?t\s*know|not\s*(available|present)|no\s*information/i
looksUnknownRe ==
    << Alt({ << Lit(<< "i" >>), Ws(0), Lit(<< "d", "o", "n" >>), Opt(<< Lit(<< "'" >>) >>),
                Lit(<< "t" >>), Ws(0), Lit(<< "k", "n", "o", "w" >>) >>,
             << Lit(<< "n", "o", "t" >>), Ws(0),
                Alt({ << Lit(<< "a", "v", "a", "i", "l", "a", "b", "l", "e" >>) >>, << Lit(<< "p", "r", "e", "s", "e", "n", "t" >>) >> }) >>,
             << Lit(<< "n", "o" >>), Ws(0), Lit(<< "i", "n", "f", "o", "r", "m", "a", "t", "i", "o", "n" >>) >> }) >>

looksUnknown(t) == RegexTestI(looksUnknownRe, toLowerCase(t))

(***************************************************************************)
(* tavilyEduSearch                                                         *)
(***************************************************************************)
ALLOWED_EDU_DOMAINS == << << "v", "l", "a", "b", ".", "c", "o", ".", "i", "n" >>, << "n", "p", "t", "e", "l", ".", "a", "c", ".", "i", "n" >>, << "w", "i", "k", "i", "p", "e", "d", "i", "a", ".", "o", "r", "g" >> >>

\* .slice(0, 6) of the allowed results
MaxCited == 6

\* .slice(0, 2000) of a result's content
ContentSlice == 2000

Min(a, b) == IF a < b THEN a ELSE b

\* seq.slice(0, n)
SliceTo(seq, n) == SubSeq(seq, 1, Min(n, Len(seq)))

\* texts.join(sep)
RECURSIVE Join(_, _)
Join(texts, sep) ==
    IF Len(texts) = 0 THEN << >>
    ELSE IF Len(texts) = 1 THEN texts[1]
    ELSE texts[1] \o sep \o Join(Tail(texts), sep)

\* the separator of the stitched passages
Separator == << "\n", "\n", "-", "-", "-", "\n", "\n" >>

endsWith(text, w) ==
    Len(w) <= Len(text) /\ SubSeq(text, Len(text) - Len(w) + 1, Len(text)) = w

\* the scheme prefix of an absolute http(s) URL, empty when there is none
UrlScheme(url) ==
    IF StartsWith(toLowerCase(url), 1, << "h", "t", "t", "p", "s", ":", "/", "/" >>) THEN << "h", "t", "t", "p", "s", ":", "/", "/" >>
    ELSE IF StartsWith(toLowerCase(url), 1, << "h", "t", "t", "p", ":", "/", "/" >>) THEN << "h", "t", "t", "p", ":", "/", "/" >>
    ELSE << >>

\* first index >= i that holds a "/", Len(text) + 1 when there is none
RECURSIVE SlashAt(_, _)
SlashAt(text, i) ==
    IF i <= Len(text) /\ text[i] # "/" THEN SlashAt(text, i + 1) ELSE i

\* new URL(url) does not throw: url is scheme://host or scheme://host/path
UrlParses(url) ==
    /\ UrlScheme(url) # << >>
    /\ SlashAt(url, Len(UrlScheme(url)) + 1) > Len(UrlScheme(url)) + 1

\* new URL(url).hostname (the parser lower-cases the host)
hostname(url) ==
    toLowerCase(SubSeq(url, Len(UrlScheme(url)) + 1,
                       SlashAt(url, Len(UrlScheme(url)) + 1) - 1))

\* host.replace(/^www\./, "")
StripWww(host) ==
    IF StartsWith(host, 1, << "w", "w", "w", "." >>) THEN SubSeq(host, 5, Len(host)) ELSE host

\* the filter of line 449: the URL parses and its host ends with a domain
IsAllowed(r) ==
    /\ UrlParses(r.url)
    /\ \E n \in 1..Len(ALLOWED_EDU_DOMAINS) :
           endsWith(StripWww(hostname(r.url)), ALLOWED_EDU_DOMAINS[n])

\* r.raw_content || r.content
ContentOf(r) == IF r.raw_content # << >> THEN r.raw_content ELSE r.content

\* `Title: ${title}\nURL: ${url}\nContent: ${content.slice(0, 2000)}`
Stitch(r) ==
    << "T", "i", "t", "l", "e", ":", " " >> \o r.title \o << "\n", "U", "R", "L", ":", " " >> \o r.url \o << "\n", "C", "o", "n", "t", "e", "n", "t", ":", " " >>
        \o SliceTo(ContentOf(r), ContentSlice)

Citation(r) == [title |-> r.title, url |-> r.url]

EmptyWeb == [webBlob |-> << >>, citations |-> << >>]

\* what the search returns for a response of the service
TavilyResult(resp) ==
    IF resp.throws \/ ~resp.ok THEN EmptyWeb
    ELSE LET results == IF resp.isArray THEN resp.results ELSE << >>
             allowed == SelectSeq(results, IsAllowed)
             top     == SliceTo(allowed, MaxCited)
         IN  [webBlob   |-> Join([i \in 1..Len(top) |-> Stitch(top[i])],
                                 Separator),
              citations |-> [i \in 1..Len(top) |-> Citation(top[i])]]

\* the locals of one call, at its entry
NewWebCall(query) ==
    [pc |-> "entry", query |-> query, response |-> NoCall,
     result |-> EmptyWeb]

\* the request is sent only with an API key
TavilyEntryStep(s) ==
    IF ~env.TAVILY_API_KEY THEN [s EXCEPT !.pc = "done", !.result = EmptyWeb]
    ELSE [s EXCEPT !.pc = "fetch"]

\* the fetch settles with the response resp
TavilyFetchStep(s, resp) ==
    [s EXCEPT !.pc = "done", !.response = resp, !.result = TavilyResult(resp)]

(***************************************************************************)
(* summarizeAndAnswer                                                      *)
(***************************************************************************)
\* the fixed candidates of lines 555-562
FixedCandidates ==
    << [v |-> << "v", "1" >>, m |-> << "g", "e", "m", "i", "n", "i", "-", "1", ".", "5", "-", "f", "l", "a", "s", "h" >>],
       [v |-> << "v", "1" >>, m |-> << "g", "e", "m", "i", "n", "i", "-", "1", ".", "5", "-", "f", "l", "a", "s", "h", "-", "8", "b" >>],
       [v |-> << "v", "1" >>, m |-> << "g", "e", "m", "i", "n", "i", "-", "1", ".", "5", "-", "p", "r", "o" >>],
       [v |-> << "v", "1", "b", "e", "t", "a" >>, m |-> << "g", "e", "m", "i", "n", "i", "-", "2", ".", "0", "-", "f", "l", "a", "s", "h" >>],
       [v |-> << "v", "1", "b", "e", "t", "a" >>, m |-> << "g", "e", "m", "i", "n", "i", "-", "1", ".", "5", "-", "f", "l", "a", "s", "h" >>],
       [v |-> << "v", "1", "b", "e", "t", "a" >>, m |-> << "g", "e", "m", "i", "n", "i", "-", "p", "r", "o" >>] >>

\* an unset (or empty) environment variable
Unset == << >>

\* the list preferred, before duplicates are dropped
Preferred ==
    (IF env.GEMINI_MODEL # Unset /\ env.GEMINI_API_VERSION # Unset
     THEN << [v |-> env.GEMINI_API_VERSION, m |-> env.GEMINI_MODEL] >>
     ELSE << >>)
    \o (IF env.GEMINI_MODEL # Unset
        THEN << [v |-> << "v", "1" >>, m |-> env.GEMINI_MODEL],
                [v |-> << "v", "1", "b", "e", "t", "a" >>, m |-> env.GEMINI_MODEL] >>
        ELSE << >>)
    \o FixedCandidates

\* `${c.v}|${c.m}`
CandidateKey(c) == c.v \o << "|" >> \o c.m

\* preferred.filter(...): an entry stays when no earlier entry has its key
Dedupe(list) ==
    LET keep(i) == \A j \in 1..(i - 1) :
                       CandidateKey(list[j]) # CandidateKey(list[i])
        F[i \in 0..Len(list)] ==
            IF i = 0 THEN << >>
            ELSE IF keep(i) THEN Append(F[i - 1], list[i]) ELSE F[i - 1]
    IN  F[Len(list)]

\* the candidates with the duplicates left in
CandidatesNoDedupe == Preferred

Candidates == Dedupe(Preferred)

\* values a message of the model is made of
Undefined == [ty |-> "undefined", s |-> << >>, items |-> << >>]
Str(s) == [ty |-> "string", s |-> s, items |-> << >>]
Arr(items) == [ty |-> "array", s |-> << >>, items |-> items]

\* the text a part of an array content contributes
PartText(p) == IF p.ty \in {"string", "text", "content"} THEN p.s ELSE << >>

\* msg.content ?? msg.text
ContentOfMsg(msg) ==
    IF msg.ty # "object" THEN Undefined
    ELSE IF msg.content.ty # "undefined" THEN msg.content ELSE msg.text

\* the answer lines 577-597 read out of the message
AnswerOf(msg) ==
    LET content == ContentOfMsg(msg)
    IN  IF content.ty = "string" THEN content.s
        ELSE IF content.ty = "array"
        THEN trim(Join([i \in 1..Len(content.items) |->
                           PartText(content.items[i])], << >>))
        ELSE IF msg.ty = "string" THEN msg.s
        ELSE << >>

\* the locals of one call, at its entry
NewLlmCall(question, astraContext, webBlob) ==
    [pc |-> "entry", question |-> question, astraContext |-> astraContext,
     webBlob |-> webBlob, candidates |-> << >>, i |-> 1, tried |-> << >>,
     lastErr |-> "null", answer |-> << >>]

\* lines 525-569: without an API key the call throws, with one it builds the
\* candidates
LlmEntryStep(s) ==
    IF ~env.apiKey THEN [s EXCEPT !.pc = "thrown"]
    ELSE [s EXCEPT !.pc = "loop", !.candidates = Candidates]

\* one turn of the loop: the invocation of candidate i settles with out
LlmInvokeStep(s, out) ==
    LET t == Append(s.tried, s.candidates[s.i])
    IN  IF ~out.throws
        THEN [s EXCEPT !.pc = "returned", !.tried = t,
                       !.answer = AnswerOf(out.msg)]
        ELSE IF s.i < Len(s.candidates)
        THEN [s EXCEPT !.i = s.i + 1, !.tried = t, !.lastErr = "error"]
        ELSE [s EXCEPT !.pc = "thrown", !.i = s.i + 1, !.tried = t,
                       !.lastErr = "error"]

(***************************************************************************)
(* retrieveContext                                                         *)
(***************************************************************************)
\* null where the code expects a number
NoNumber == [k |-> "null", neg |-> FALSE, m |-> << >>, e |-> 0]

IsNumber(x) == x.k \in {"fin", "inf", "nan"}

\* .limit(12) of the queries and .slice(0, 12) of the image paths
DocLimit == 12

\* .slice(0, 5) of the passages
PassageLimit == 5

\* the first of $similarity, similarity, score, $score that is a number
simFromDoc(d) ==
    IF IsNumber(d.dsimilarity) THEN d.dsimilarity
    ELSE IF IsNumber(d.similarity) THEN d.similarity
    ELSE IF IsNumber(d.score) THEN d.score
    ELSE IF IsNumber(d.dscore) THEN d.dscore
    ELSE NoNumber

\* s.replace(/\\/g, "/")
SlashPath(p) == [i \in 1..Len(p) |-> IF p[i] = "\\" THEN "/" ELSE p[i]]

IsBlank(text) == trim(text) = << >>

\* typ === "image" || mime.startsWith("image/")
IsImg(d) == d.type = "image" \/ StartsWith(d.mime, 1, << "i", "m", "a", "g", "e", "/" >>)

\* what the three queries answer: the hybrid query when it is available and
\* not empty, otherwise the vector query; the best document; the best
\* document of type text
QueryDocs(db) ==
    IF Len(db.hybrid) > 0 THEN SliceTo(db.hybrid, DocLimit)
    ELSE SliceTo(db.vector, DocLimit)

QueryTop(db) == SliceTo(db.vector, 1)

QueryTopText(db) ==
    SliceTo(SelectSeq(db.vector, LAMBDA d : d.type = "text"), 1)

\* what retrieveContext returns for the state db of the collection
Retrieved(db) ==
    LET docs == QueryDocs(db)
        top0 == IF Len(docs) > 0 THEN simFromDoc(docs[1]) ELSE NoNumber
        top1 == IF top0 = NoNumber /\ Len(QueryTop(db)) > 0
                THEN simFromDoc(QueryTop(db)[1]) ELSE top0
        text == IF ~db.textFails /\ Len(QueryTopText(db)) > 0
                THEN simFromDoc(QueryTopText(db)[1]) ELSE NoNumber
        rawTexts   == SelectSeq(docs, LAMBDA d : ~IsBlank(d.text))
        imageDocs  == SelectSeq(docs, LAMBDA d : IsImg(d) /\ d.path # << >>)
        passages   == [i \in 1..Len(rawTexts) |-> rawTexts[i].text]
        imagePaths == [i \in 1..Len(imageDocs) |-> SlashPath(imageDocs[i].path)]
    IN  [context |-> Join(SliceTo(passages, PassageLimit), Separator),
         sources |-> SliceTo(passages, PassageLimit),
         images  |-> SliceTo(imagePaths, DocLimit),
         topSimilarity |-> IF Len(docs) = 0 /\ top1 = NoNumber THEN Zero
                           ELSE top1,
         topTextSimilarity |-> text]

(***************************************************************************)
(* POST of the chat route                                                  *)
(***************************************************************************)
\* the backspace character U+0008
Backspace == "<U+0008>"

\* the characters U+03A9 and U+2011 of the colour-code answer
OmegaSign == "<U+03A9>"
NbHyphen == "<U+2011>"

\* the characters of a band name
Chars(name) ==
    CASE name = "Black" -> << "B", "l", "a", "c", "k" >>
      [] name = "Brown" -> << "B", "r", "o", "w", "n" >>
      [] name = "Red" -> << "R", "e", "d" >>
      [] name = "Orange" -> << "O", "r", "a", "n", "g", "e" >>
      [] name = "Yellow" -> << "Y", "e", "l", "l", "o", "w" >>
      [] name = "Green" -> << "G", "r", "e", "e", "n" >>
      [] name = "Blue" -> << "B", "l", "u", "e" >>
      [] name = "Violet" -> << "V", "i", "o", "l", "e", "t" >>
      [] name = "Grey" -> << "G", "r", "e", "y" >>
      [] name = "White" -> << "W", "h", "i", "t", "e" >>
      [] name = Gold -> << "G", "o", "l", "d", " ", "(", "±", "5", "%", ")" >>

DigitChar(d) == << "0", "1", "2", "3", "4", "5", "6", "7", "8", "9" >>[d + 1]

\* String(n) of a natural number below 10^21
NumText(X) ==
    IF Len(X) = 0 THEN << "0" >>
    ELSE LET dd == DecDigits(X) IN [i \in 1..Len(dd) |-> DigitChar(dd[i])]

\* text.includes(w)
Contains(text, w) ==
    \E i \in 1..(Len(text) - Len(w) + 1) : StartsWith(text, i, w)

\* the matches of /\d+/g from index pos on
RECURSIVE DigitRuns(_, _)
DigitRuns(text, pos) ==
    LET i == FirstDigit(text, pos)
    IN  IF i > Len(text) THEN << >>
        ELSE << SubSeq(text, i, DigitsEnd(text, i) - 1) >>
             \o DigitRuns(text, DigitsEnd(text, i))

\* qDigits.some((d) => new RegExp(`\b${d}\b`).test(context)): inside the
\* template literal \b is the backspace character, so the pattern is the
\* digits between two backspaces
digitsInContext(question, context) ==
    LET qDigits == DigitRuns(question, 1)
    IN  \E n \in 1..Len(qDigits) :
            Contains(context, << Backspace >> \o qDigits[n] \o << Backspace >>)

\* parseFloat of a text that is not known to be a numeric token
parseFloatText(text) ==
    LET t  == TrimStart(text)
        j  == DigitsEnd(t, 1)
        j2 == IF j + 1 <= Len(t) /\ t[j] = "." /\ IsDigit(t[j + 1])
              THEN DigitsEnd(t, j + 1) ELSE j
    IN  IF j = 1 THEN NaN ELSE parseFloat(SubSeq(t, 1, j2 - 1))

\* the default of SEARCH_SIM_THRESHOLD
DefaultThreshold == parseFloat(<< "0", ".", "6" >>)

\* lines 633-634
Threshold ==
    LET thresholdEnv == IF env.SEARCH_SIM_THRESHOLD = Unset THEN DefaultThreshold
                        ELSE parseFloatText(env.SEARCH_SIM_THRESHOLD)
    IN  IF isFinite(thresholdEnv) THEN thresholdEnv ELSE DefaultThreshold

\* line 632 with the two similarities in the other order
SimTopFirst(r) ==
    IF IsNumber(r.topSimilarity) THEN r.topSimilarity
    ELSE IF IsNumber(r.topTextSimilarity) THEN r.topTextSimilarity
    ELSE NoNumber

\* line 632
Sim(r) ==
    IF IsNumber(r.topTextSimilarity) THEN r.topTextSimilarity
    ELSE IF IsNumber(r.topSimilarity) THEN r.topSimilarity
    ELSE NoNumber

wantsColorCode(question) == RegexTestI(wantsColorCodeRe, question)

wantColor(question) == RegexTestI(wantColorRe, question)

forceWeb(question) == RegexTestI(forceWebRe, question)

asksImage(question) == ContainsAnyI(asksImageWords, question)

hasColorTermsInContext(context) == ContainsAnyI(colorTerms, context)

\* line 641
insufficientMapping(question, context) ==
    wantsColorCode(question)
        /\ (~digitsInContext(question, context)
            \/ ~hasColorTermsInContext(context))

\* line 642
shouldSearchWeb(question, r) ==
    \/ forceWeb(question)
    \/ insufficientMapping(question, r.context)
    \/ (Sim(r) # NoNumber /\ NumLess(Sim(r), Threshold))

\* `resistor color code ${vals} ohm 4-band 5-band` of lines 650-651
ColorQuery(qVals) ==
    << "r", "e", "s", "i", "s", "t", "o", "r", " ", "c", "o", "l", "o", "r", " ", "c", "o", "d", "e", " " >>
        \o Join([i \in 1..Len(qVals) |-> NumText(NumRound(qVals[i]))],
                << " " >>)
        \o << " ", "o", "h", "m", " ", "4", "-", "b", "a", "n", "d", " ", "5", "-", "b", "a", "n", "d" >>

\* the query of lines 649-652
colorQ(question) ==
    IF wantsColorCode(question) /\ Len(extractOhmValues(question)) > 0
    THEN ColorQuery(extractOhmValues(question))
    ELSE question

\* the entry of lines 696-698 for a value and its colour code
PartOf(val, mapping) ==
    << "-", " " >> \o NumText(NumRound(val)) \o << " ", OmegaSign, ":", "\n", " ", " ", "-", " ", "4", NbHyphen, "b", "a", "n", "d", ":", " " >>
        \o Join([i \in 1..Len(mapping.fourBand) |-> Chars(mapping.fourBand[i])],
                << " ", "-", " " >>)
        \o << "\n", " ", " ", "-", " ", "5", NbHyphen, "b", "a", "n", "d", ":", " " >>
        \o Join([i \in 1..Len(mapping.fiveBand) |-> Chars(mapping.fiveBand[i])],
                << " ", "-", " " >>)

\* the loop of lines 693-700 leaving at the first value without a colour code
RECURSIVE ColorPartsUntilNull(_)
ColorPartsUntilNull(qVals) ==
    IF Len(qVals) = 0 \/ computeResistorColorCode(qVals[1]).isNull THEN << >>
    ELSE << PartOf(qVals[1], computeResistorColorCode(qVals[1])) >>
         \o ColorPartsUntilNull(Tail(qVals))

\* the loop of lines 693-700 (and of lines 727-734)
RECURSIVE ColorParts(_)
ColorParts(qVals) ==
    IF Len(qVals) = 0 THEN << >>
    ELSE LET mapping == computeResistorColorCode(qVals[1])
         IN  (IF mapping.isNull THEN << >>
              ELSE << PartOf(qVals[1], mapping) >>)
             \o ColorParts(Tail(qVals))

\* `Resistor color code:\n\n${parts.join('\n')}`
ColorAnswer(parts) == << "R", "e", "s", "i", "s", "t", "o", "r", " ", "c", "o", "l", "o", "r", " ", "c", "o", "d", "e", ":", "\n", "\n" >> \o Join(parts, << "\n" >>)

DontKnow == << "I", " ", "d", "o", "n", "'", "t", " ", "k", "n", "o", "w", "." >>

Greeting ==
    << "H", "e", "l", "l", "o", "!", " ", "I", "'", "m", " ", "t", "h", "e", " ", "V", "i", "r", "t", "u", "a", "l", " ", "L", "a", "b", " ", "I", "I", "T", " ", "R", "o", "o", "r", "k", "e", "e", " ", "a", "s", "s", "i", "s", "t", "a", "n", "t", ".", " ", "A", "s", "k", " ", "a", "b", "o", "u", "t", " ", "o", "b", "j", "e", "c", "t", "i", "v", "e", "s", ",", " ", "a", "p", "p", "a", "r", "a", "t", "u", "s", ",", " ", "p", "r", "o", "c", "e", "d", "u", "r", "e", ",", " ", "p", "r", "e", "c", "a", "u", "t", "i", "o", "n", "s", ",", " ", "o", "r", " ", "a", "n", "a", "l", "y", "s", "i", "s", ",", " ", "a", "n", "d", " ", "I", "'", "l", "l", " ", "h", "e", "l", "p", " ", "y", "o", "u", "." >>

\* norm.lastIndexOf(w), counted from 1; 0 when w does not occur
LastIndexOf(text, w) ==
    IF Contains(text, w)
    THEN CHOOSE i \in 1..Len(text) :
             /\ StartsWith(text, i, w)
             /\ \A j \in (i + 1)..Len(text) : ~StartsWith(text, j, w)
    ELSE 0

\* norm.split('/').pop()
LastSegment(text) ==
    IF Contains(text, << "/" >>)
    THEN SubSeq(text, LastIndexOf(text, << "/" >>) + 1, Len(text))
    ELSE text

\* toClientPath without the directory put in front of a bare file name
toClientPathBare(p) ==
    LET norm == SlashPath(p)
        i    == LastIndexOf(norm, << "/", "i", "m", "a", "g", "e", "s", "/" >>)
        file == IF LastSegment(norm) # << >> THEN LastSegment(norm) ELSE norm
    IN  IF i > 0 THEN SubSeq(norm, i + 1, Len(norm)) ELSE file

\* lines 660-666
toClientPath(p) ==
    LET norm == SlashPath(p)
        i    == LastIndexOf(norm, << "/", "i", "m", "a", "g", "e", "s", "/" >>)
        file == IF LastSegment(norm) # << >> THEN LastSegment(norm) ELSE norm
    IN  IF i > 0 THEN SubSeq(norm, i + 1, Len(norm))
        ELSE << "i", "m", "a", "g", "e", "s", "/" >> \o file

\* the filter of lines 669-677
IsPreferred(question, p) ==
    LET qtext == toLowerCase(question)
        s     == toLowerCase(p)
    IN  \/ Contains(qtext, << "r", "e", "s", "i", "s", "t", "o", "r" >>)
             /\ RegexTest(<< Lit(<< "r", "e", "s" >>), Opt(<< Lit(<< "i", "s", "t", "o", "r" >>) >>) >>, s)
        \/ Contains(qtext, << "c", "a", "p", "a", "c", "i", "t", "o", "r" >>)
             /\ RegexTest(<< Lit(<< "c", "a", "p" >>), Opt(<< Lit(<< "a", "c", "i", "t", "o", "r" >>) >>) >>, s)
        \/ Contains(qtext, << "i", "n", "d", "u", "c", "t", "o", "r" >>) /\ Contains(s, << "i", "n", "d", "u", "c", "t" >>)
        \/ (Contains(qtext, << "c", "o", "l", "o", "r" >>) \/ Contains(qtext, << "c", "o", "l", "o", "u", "r" >>))
             /\ \E w \in { << "c", "o", "l", "o", "r" >>, << "c", "o", "l", "o", "u", "r" >>, << "c", "o", "d", "e" >>, << "g", "u", "i", "d", "e" >>,
                           << "c", "h", "a", "r", "t" >> } : Contains(s, w)

\* .slice(0, 6) of the picked images
MaxPicks == 6

\* line 678
Picks(question, images) ==
    LET preferred == SelectSeq(images, LAMBDA p : IsPreferred(question, p))
        chosen    == SliceTo(IF Len(preferred) > 0 THEN preferred ELSE images,
                             MaxPicks)
    IN  [i \in 1..Len(chosen) |-> toClientPath(chosen[i])]

\* lines 679-683
ImageAnswer(picks) ==
    Join(<< << "H", "e", "r", "e", " ", "a", "r", "e", " ", "r", "e", "l", "e", "v", "a", "n", "t", " ", "i", "m", "a", "g", "e", "s", ":" >>, << >> >>
             \o [i \in 1..Len(picks) |-> << "!", "[", "]", "(", "/" >> \o picks[i] \o << ")" >>],
         << "\n" >>)

\* context.slice(0, 1200) of the fallback answer
ContextCut == 1200

\* lines 716-718 without the cut
ContextFallbackWhole(context) ==
    IF ~IsBlank(context) THEN context ELSE DontKnow

\* lines 716-718
ContextFallback(context) ==
    IF ~IsBlank(context)
    THEN (IF Len(context) > ContextCut
          THEN SliceTo(context, ContextCut) \o << " ", ".", ".", "." >> ELSE context)
    ELSE DontKnow

\* a field the response does not have
Absent == [k |-> "absent", neg |-> FALSE, m |-> << >>, e |-> 0]

NoResponse == [status |-> 0, error |-> << >>, hasAnswer |-> FALSE,
               answer |-> << >>, sources |-> << >>, similarity |-> Absent]

\* NextResponse.json({ error }, { status })
ErrorResponse(status, error) ==
    [NoResponse EXCEPT !.status = status, !.error = error]

\* NextResponse.json({ answer, sources, similarity })
AnswerResponse(answer, sources, similarity) ==
    [status |-> 200, error |-> << >>, hasAnswer |-> TRUE, answer |-> answer,
     sources |-> sources, similarity |-> similarity]

MissingQuestion == << "M", "i", "s", "s", "i", "n", "g", " ", "'", "q", "u", "e", "s", "t", "i", "o", "n", "'", " ", "i", "n", " ", "J", "S", "O", "N", " ", "b", "o", "d", "y" >>

MissingAstra ==
    << "M", "i", "s", "s", "i", "n", "g", " ", "A", "s", "t", "r", "a", " ", "D", "B", " ", "e", "n", "v", ":", " ", "A", "S", "T", "R", "A", "_", "D", "B", "_", "A", "P", "I", "_", "E", "N", "D", "P", "O", "I", "N", "T", ",", " ", "A", "S", "T", "R", "A", "_", "D", "B", "_", "A", "P", "P", "L", "I", "C", "A", "T", "I", "O", "N", "_", "T", "O", "K", "E", "N", ",", " ", "A", "S", "T", "R", "A", "_", "D", "B", "_", "N", "A", "M", "E", "S", "P", "A", "C", "E" >>

\* the locals of one request, at its entry
NewRequest(body) ==
    [pc |-> "parse", body |-> body, question |-> << >>,
     context |-> << >>, sources |-> << >>, images |-> << >>,
     topSimilarity |-> NoNumber, topTextSimilarity |-> NoNumber,
     sim |-> NoNumber, searched |-> FALSE,
     webBlob |-> << >>, webCitations |-> << >>,
     parts |-> << >>, finalAnswer |-> << >>, response |-> NoResponse]

Respond(s, response) == [s EXCEPT !.pc = "done", !.response = response]

\* body?.question ?? body?.message ?? ""
QuestionOf(body) ==
    IF body.question.ty \notin {"undefined", "null"} THEN body.question
    ELSE IF body.message.ty \notin {"undefined", "null"} THEN body.message
    ELSE Str(<< >>)

\* lines 612-625 without the answer to a greeting
ParseStepNoGreeting(s) ==
    LET q == QuestionOf(s.body)
    IN  IF q.ty # "string" \/ q.s = << >>
        THEN Respond(s, ErrorResponse(400, MissingQuestion))
        ELSE [s EXCEPT !.pc = "retrieve", !.question = q.s]

\* lines 612-625
ParseStep(s) ==
    LET q == QuestionOf(s.body)
    IN  IF q.ty # "string" \/ q.s = << >>
        THEN Respond(s, ErrorResponse(400, MissingQuestion))
        ELSE IF RegexTestI(greetRe, toLowerCase(trim(q.s)))
        THEN Respond([s EXCEPT !.question = q.s],
                     AnswerResponse(Greeting, << >>, Absent))
        ELSE [s EXCEPT !.pc = "retrieve", !.question = q.s]

\* lines 658-713 without the branch of lines 688-708
DecideStepNoBlankBranch(s) ==
    IF asksImage(s.question) /\ Len(s.images) > 0
    THEN LET picks == Picks(s.question, s.images)
         IN  Respond(s, AnswerResponse(ImageAnswer(picks),
                                       [i \in 1..Len(picks) |->
                                           << "/" >> \o picks[i]],
                                       s.sim))
    ELSE [s EXCEPT !.pc = "llm"]

\* lines 689-690: the values whose colour codes are computed
AskedValues(question) ==
    IF wantColor(question) THEN extractOhmValues(question) ELSE << >>

\* lines 701-707
BlankAnswer(s, parts) ==
    IF Len(parts) > 0
    THEN Respond([s EXCEPT !.parts = parts],
                 AnswerResponse(ColorAnswer(parts), << >>, s.sim))
    ELSE Respond(s, AnswerResponse(DontKnow, << >>, s.sim))

\* lines 658-713, up to the call of summarizeAndAnswer
DecideStep(s) ==
    IF asksImage(s.question) /\ Len(s.images) > 0
    THEN LET picks == Picks(s.question, s.images)
         IN  Respond(s, AnswerResponse(ImageAnswer(picks),
                                       [i \in 1..Len(picks) |->
                                           << "/" >> \o picks[i]],
                                       s.sim))
    ELSE IF IsBlank(s.context) /\ IsBlank(s.webBlob)
    THEN BlankAnswer(s, ColorParts(AskedValues(s.question)))
    ELSE [s EXCEPT !.pc = "llm"]

\* lines 628-632: the locals after the retrieval r
WithRetrieved(s, r) ==
    [s EXCEPT !.context = r.context, !.sources = r.sources,
              !.images = r.images,
              !.topSimilarity = r.topSimilarity,
              !.topTextSimilarity = r.topTextSimilarity,
              !.sim = Sim(r)]

\* lines 642-646: the policy decides whether the web is searched
SearchOrDecide(t, r) ==
    IF shouldSearchWeb(t.question, r)
    THEN [t EXCEPT !.pc = "web", !.searched = TRUE]
    ELSE DecideStep(t)

\* lines 628-652: retrieval throws without the Astra settings
RetrieveStep(s) ==
    IF ~env.astra THEN Respond(s, ErrorResponse(500, MissingAstra))
    ELSE SearchOrDecide(WithRetrieved(s, Retrieved(env.db)),
                        Retrieved(env.db))

\* lines 654-655, then the decision
AfterWebStep(s, w) ==
    DecideStep([s EXCEPT !.webBlob = w.webBlob, !.webCitations = w.citations])

\* `${c.title} - ${c.url}`
CitationText(c) == c.title \o << " ", "-", " " >> \o c.url

\* line 741: the sources and the citations of the web search
AllSources(s) ==
    s.sources \o [i \in 1..Len(s.webCitations) |->
                    CitationText(s.webCitations[i])]

\* the response of line 742
Sent(s, parts, answer) ==
    Respond([s EXCEPT !.parts = parts, !.finalAnswer = answer],
            AnswerResponse(answer, AllSources(s), s.sim))

\* line 740
OrDontKnow(final) == IF final = << >> THEN DontKnow ELSE final

\* lines 735-737
OrColorAnswer(parts, final) ==
    IF Len(parts) > 0 THEN ColorAnswer(parts) ELSE final

\* lines 721-734: the colour codes computed when the answer says nothing
FallbackParts(question, final) ==
    IF wantColor(question) /\ (final = << >> \/ looksUnknown(final))
    THEN ColorParts(extractOhmValues(question)) ELSE << >>

\* lines 711-719: the trimmed answer of the model, or the fallback when the
\* call has thrown
FirstAnswer(s, l) ==
    IF l.pc = "returned" THEN trim(l.answer) ELSE ContextFallback(s.context)

\* lines 735-742
FinishWith(s, final, parts) ==
    Sent(s, parts, OrDontKnow(OrColorAnswer(parts, final)))

\* lines 720-742
FinishFrom(s, final) ==
    FinishWith(s, final, FallbackParts(s.question, final))

\* lines 714-742 with the answer of the model returned as it is
FinishStepNoFallback(s, l) ==
    Sent(s, << >>, OrDontKnow(FirstAnswer(s, l)))

\* lines 714-742: l is the finished call of summarizeAndAnswer
FinishStep(s, l) == FinishFrom(s, FirstAnswer(s, l))

(***************************************************************************)
(* Inputs of the chat route                                                *)
(***************************************************************************)
MaxResults == 2
MaxFigures == 6

\* process.env and the services outside the process: db is the state of
\* the collection, tavily the responses the search service may give, invoke
\* the ways an invocation of the model may settle
BaseEnv ==
    [TAVILY_API_KEY |-> TRUE, apiKey |-> TRUE, GEMINI_MODEL |-> Unset,
     GEMINI_API_VERSION |-> Unset, SEARCH_SIM_THRESHOLD |-> Unset,
     astra |-> TRUE, db |-> NoCall, tavily |-> {}, invoke |-> {}]

WebResult(title, url, content) ==
    [title |-> title, url |-> url, raw_content |-> << >>, content |-> content]

ResultChoices ==
    { WebResult(<< "V", "l", "a", "b" >>, << "h", "t", "t", "p", "s", ":", "/", "/", "v", "l", "a", "b", ".", "c", "o", ".", "i", "n", "/", "e", "x", "p", "1" >>, << "C", "o", "l", "o", "u", "r", " ", "b", "a", "n", "d", "s" >>),
      WebResult(<< "N", "P", "T", "E", "L" >>, << "h", "t", "t", "p", "s", ":", "/", "/", "w", "w", "w", ".", "n", "p", "t", "e", "l", ".", "a", "c", ".", "i", "n", "/", "c", "o", "u", "r", "s", "e", "s" >>, << "L", "e", "c", "t", "u", "r", "e" >>),
      WebResult(<< "R", "e", "s", "i", "s", "t", "o", "r" >>, << "h", "t", "t", "p", "s", ":", "/", "/", "e", "n", ".", "W", "i", "k", "i", "p", "e", "d", "i", "a", ".", "o", "r", "g", "/", "w", "i", "k", "i", "/", "R", "e", "s", "i", "s", "t", "o", "r" >>, << "A", " ", "r", "e", "s", "i", "s", "t", "o", "r" >>),
      WebResult(<< "M", "i", "r", "r", "o", "r" >>, << "h", "t", "t", "p", "s", ":", "/", "/", "n", "o", "t", "w", "i", "k", "i", "p", "e", "d", "i", "a", ".", "o", "r", "g", "/", "w", "i", "k", "i" >>, << "C", "o", "p", "i", "e", "d" >>),
      WebResult(<< "O", "t", "h", "e", "r" >>, << "h", "t", "t", "p", "s", ":", "/", "/", "e", "x", "a", "m", "p", "l", "e", ".", "c", "o", "m", "/", "w", "i", "k", "i", "p", "e", "d", "i", "a", ".", "o", "r", "g" >>, << "E", "l", "s", "e", "w", "h", "e", "r", "e" >>),
      WebResult(<< >>, << >>, << "N", "o", " ", "a", "d", "d", "r", "e", "s", "s" >>) }

RECURSIVE ResultLists(_)
ResultLists(n) ==
    IF n = 0 THEN { << >> }
    ELSE { Append(l, r) : l \in ResultLists(n - 1), r \in ResultChoices }

\* more allowed results than are cited
LongResultList ==
    [i \in 1..(MaxCited + 2) |->
        IF i % 2 = 0
        THEN WebResult(<< "V", "l", "a", "b", " " >> \o NumText(<< i >>), << "h", "t", "t", "p", "s", ":", "/", "/", "v", "l", "a", "b", ".", "c", "o", ".", "i", "n", "/", "e", "x", "p" >> \o NumText(<< i >>), << "P", "a", "g", "e" >>)
        ELSE WebResult(<< "W", "i", "k", "i", " " >> \o NumText(<< i >>), << "h", "t", "t", "p", ":", "/", "/", "w", "w", "w", ".", "w", "i", "k", "i", "p", "e", "d", "i", "a", ".", "o", "r", "g", "/" >> \o NumText(<< i >>), << "A", "r", "t", "i", "c", "l", "e" >>)]

Response(results) ==
    [throws |-> FALSE, ok |-> TRUE, isArray |-> TRUE, results |-> results]

FailedResponses ==
    { [Response(<< >>) EXCEPT !.throws = TRUE],
      [Response(<< >>) EXCEPT !.ok = FALSE],
      [Response(<< >>) EXCEPT !.isArray = FALSE] }

WebResponses ==
    FailedResponses
    \cup { Response(l) : l \in UNION { ResultLists(n) : n \in 0..MaxResults } }
    \cup { Response(LongResultList) }

WebEnvs ==
    { [BaseEnv EXCEPT !.TAVILY_API_KEY = k, !.tavily = WebResponses] :
        k \in BOOLEAN }

WebQueries ==
    { << "o", "h", "m", " ", "l", "a", "w" >>, << "r", "e", "s", "i", "s", "t", "o", "r", " ", "c", "o", "l", "o", "r", " ", "c", "o", "d", "e", " ", "2", "2", "0", " ", "o", "h", "m", " ", "4", "-", "b", "a", "n", "d", " ", "5", "-", "b", "a", "n", "d" >>,
      << "w", "h", "a", "t", " ", "i", "s", " ", "a", " ", "c", "a", "p", "a", "c", "i", "t", "o", "r", " ", "f", "r", "o", "m", " ", "w", "e", "b" >> }

Message(content) ==
    [ty |-> "object", s |-> << >>, content |-> content, text |-> Undefined]

Part(ty, s) == [ty |-> ty, s |-> s]

Outcome(msg) == [throws |-> FALSE, msg |-> msg]

Throws == [throws |-> TRUE, msg |-> Message(Undefined)]

\* the ways an invocation settles
Outcomes ==
    { Throws,
      Outcome(Message(Str(<< " ", "U", "s", "e", " ", "t", "h", "e", " ", "c", "o", "l", "o", "u", "r", " ", "c", "h", "a", "r", "t", ".", " " >>))),
      Outcome(Message(Arr(<< Part("string", << " ", "N", "o", "t", " " >>),
                             Part("text", << "a", "v", "a", "i", "l", "a", "b", "l", "e" >>),
                             Part("other", << "x" >>),
                             Part("content", << ".", " " >>) >>))),
      Outcome([Message(Undefined) EXCEPT !.text = Str(<< "F", "r", "o", "m", " ", "t", "e", "x", "t" >>)]),
      Outcome([ty |-> "string", s |-> << "P", "l", "a", "i", "n" >>, content |-> Undefined,
               text |-> Undefined]),
      Outcome(Message(Undefined)) }

ModelNames == { Unset, << "g", "e", "m", "i", "n", "i", "-", "1", ".", "5", "-", "f", "l", "a", "s", "h" >>, << "g", "e", "m", "i", "n", "i", "-", "p", "r", "o" >>, << "g", "e", "m", "i", "n", "i", "-", "e", "x", "p" >> }

ApiVersions == { Unset, << "v", "1" >>, << "v", "1", "b", "e", "t", "a" >>, << "v", "1", "a", "l", "p", "h", "a" >> }

LlmEnvs ==
    { [BaseEnv EXCEPT !.apiKey = k, !.GEMINI_MODEL = m,
                      !.GEMINI_API_VERSION = v, !.invoke = Outcomes] :
        k \in BOOLEAN, m \in ModelNames, v \in ApiVersions }

Doc(type, text, path, mime, sim) ==
    [type |-> type, text |-> text, path |-> path, mime |-> mime,
     dsimilarity |-> sim, similarity |-> NoNumber, score |-> NoNumber,
     dscore |-> NoNumber]

TextGood ==
    Doc("text", << "R", "e", "s", "i", "s", "t", "o", "r", " ", "c", "o", "l", "o", "u", "r", " ", "c", "o", "d", "e", " ", "c", "h", "a", "r", "t", ":", " ", "2", "2", "0", " ", "o", "h", "m", " ", "i", "s", " ", "r", "e", "d", " ", "r", "e", "d", " ", "b", "r", "o", "w", "n", " ", "b", "a", "n", "d" >>,
        << >>, << >>, parseFloat(<< "0", ".", "8", "2" >>))

TextMarked ==
    Doc("text", << "C", "o", "l", "o", "r", " ", "b", "a", "n", "d", "s", " ", "o", "f", " ", Backspace, "2", "2", "0", Backspace, " ", "o", "h", "m", ":", " ", "r", "e", "d", " ", "r", "e", "d", " ", "b", "r", "o", "w", "n" >>,
        << >>, << >>, parseFloat(<< "0", ".", "8" >>))

TextLong ==
    Doc("text", << "O", "h", "m", " ", "l", "a", "w", ".", " " >> \o [i \in 1..ContextCut |-> "."],
        << >>, << >>, parseFloat(<< "0", ".", "7" >>))

TextBlank == Doc("text", << " ", " " >>, << >>, << >>, parseFloat(<< "0", ".", "7" >>))

TextUnknown ==
    Doc("text", << "T", "o", "l", "e", "r", "a", "n", "c", "e", " ", "d", "a", "t", "a", " ", "i", "s", " ", "n", "o", "t", " ", "a", "v", "a", "i", "l", "a", "b", "l", "e", " ", "i", "n", " ", "t", "h", "i", "s", " ", "l", "a", "b" >>,
        << >>, << >>, parseFloat(<< "0", ".", "6", "5" >>))

TextPlain ==
    Doc("text", << "O", "h", "m", " ", "l", "a", "w", " ", "r", "e", "l", "a", "t", "e", "s", " ", "v", "o", "l", "t", "a", "g", "e", " ", "a", "n", "d", " ", "c", "u", "r", "r", "e", "n", "t" >>,
        << >>, << >>, parseFloat(<< "0", ".", "5", "5" >>))

\* a document that carries its similarity in the field score
TextScore ==
    [Doc("text", << "K", "i", "r", "c", "h", "h", "o", "f", "f", " ", "c", "u", "r", "r", "e", "n", "t", " ", "l", "a", "w" >>, << >>, << >>, NoNumber)
        EXCEPT !.score = parseFloat(<< "0", ".", "5" >>)]

TextLow ==
    Doc("text", << "S", "a", "f", "e", "t", "y", " ", "r", "u", "l", "e", "s", " ", "o", "f", " ", "t", "h", "e", " ", "l", "a", "b" >>, << >>, << >>, parseFloat(<< "0", ".", "4", "5" >>))

ImgResistor ==
    Doc("image", << >>, << "C", ":", "\\", "d", "a", "t", "a", "\\", "p", "u", "b", "l", "i", "c", "\\", "i", "m", "a", "g", "e", "s", "\\", "r", "e", "s", "i", "s", "t", "o", "r", "_", "c", "o", "l", "o", "r", "_", "c", "h", "a", "r", "t", ".", "p", "n", "g" >>,
        << "i", "m", "a", "g", "e", "/", "p", "n", "g" >>, parseFloat(<< "0", ".", "9" >>))

ImgCapacitor ==
    Doc("image", << >>, << "/", "p", "u", "b", "l", "i", "c", "/", "i", "m", "a", "g", "e", "s", "/", "l", "a", "b", "/", "c", "a", "p", "a", "c", "i", "t", "o", "r", ".", "p", "n", "g" >>, << >>,
        parseFloat(<< "0", ".", "9" >>))

\* an image known by its mime type only
ImgInductor ==
    Doc("figure", << >>, << "i", "n", "d", "u", "c", "t", "o", "r", ".", "j", "p", "g" >>, << "i", "m", "a", "g", "e", "/", "j", "p", "e", "g" >>, parseFloat(<< "0", ".", "9" >>))

Figure(i) ==
    Doc("image", << >>, << "i", "m", "a", "g", "e", "s", "/", "f", "i", "g" >> \o NumText(<< i >>) \o << ".", "p", "n", "g" >>, << >>,
        parseFloat(<< "0", ".", "8", "5" >>))

ManyImages ==
    << ImgCapacitor, ImgInductor >> \o [i \in 1..MaxFigures |-> Figure(i)]
        \o << [ImgResistor EXCEPT !.dsimilarity = parseFloat(<< "0", ".", "8", "4" >>)] >>

AllTexts ==
    << TextGood, TextMarked, TextUnknown, TextPlain, TextScore, TextLow >>

\* the documents of the collection, best match first
Collections ==
    { << >>, << TextGood >>, << TextMarked >>, << TextLong >>,
      << TextBlank >>, << TextUnknown >>, << TextPlain >>,
      << ImgResistor, TextGood >>, << ImgResistor, TextPlain >>,
      << ImgResistor, TextScore >>, ManyImages, AllTexts,
      ManyImages \o AllTexts }

Db(vector) == [vector |-> vector, hybrid |-> << >>, textFails |-> FALSE]

NoSimilarity(d) == [d EXCEPT !.dsimilarity = NoNumber, !.score = NoNumber]

\* the states of the collection: the hybrid query is unavailable, or it
\* answers the text documents first and without similarities, or the query
\* for the best text document fails
Dbs ==
    { Db(c) : c \in Collections }
    \cup { [Db(c) EXCEPT !.hybrid =
               [i \in 1..Len(c) |-> NoSimilarity(c[Len(c) + 1 - i])]] :
             c \in { << ImgResistor, TextGood >>, << ImgResistor, TextPlain >> } }
    \cup { [Db(c) EXCEPT !.textFails = TRUE] :
             c \in { << ImgResistor, TextPlain >> } }

PostResponses ==
    { [Response(<< >>) EXCEPT !.throws = TRUE],
      Response(<< WebResult(<< "V", "l", "a", "b" >>, << "h", "t", "t", "p", "s", ":", "/", "/", "v", "l", "a", "b", ".", "c", "o", ".", "i", "n", "/", "e", "x", "p", "1" >>, << "C", "o", "l", "o", "u", "r", " ", "b", "a", "n", "d", "s" >>),
                  WebResult(<< "O", "t", "h", "e", "r" >>, << "h", "t", "t", "p", "s", ":", "/", "/", "e", "x", "a", "m", "p", "l", "e", ".", "c", "o", "m", "/", "w", "i", "k", "i", "p", "e", "d", "i", "a", ".", "o", "r", "g" >>, << "E", "l", "s", "e", "w", "h", "e", "r", "e" >>) >>) }

PostOutcomes ==
    { Throws,
      Outcome(Message(Str(<< " ", "U", "s", "e", " ", "t", "h", "e", " ", "c", "o", "l", "o", "u", "r", " ", "c", "h", "a", "r", "t", ".", " " >>))),
      Outcome(Message(Str(<< "I", " ", "d", "o", "n", "'", "t", " ", "k", "n", "o", "w", "." >>))),
      Outcome(Message(Str(<< " ", " " >>))) }

PostBase == [BaseEnv EXCEPT !.tavily = PostResponses, !.invoke = PostOutcomes]

\* every state of the collection with the default settings; some of them
\* without a search key and with a higher threshold, without a model key and
\* with a threshold that is no number, and without the Astra settings
PostEnvs ==
    { [PostBase EXCEPT !.db = d] : d \in Dbs }
    \cup { [PostBase EXCEPT !.db = Db(c), !.TAVILY_API_KEY = FALSE,
                            !.SEARCH_SIM_THRESHOLD = << "0", ".", "9" >>] :
             c \in { << >>, << TextGood >>, << ImgResistor, TextGood >> } }
    \cup { [PostBase EXCEPT !.db = Db(c), !.apiKey = FALSE,
                            !.SEARCH_SIM_THRESHOLD = << "h", "i", "g", "h" >>] :
             c \in { << >>, << TextGood >>, << TextLong >>, << TextUnknown >>,
                     ManyImages } }
    \cup { [PostBase EXCEPT !.db = Db(<< >>), !.astra = FALSE] }

Intents ==
    { << "c", "o", "l", "o", "r", " ", "c", "o", "d", "e", " ", "o", "f", " " >>, << "W", "h", "a", "t", " ", "i", "s", " ", "t", "h", "e", " ", "b", "a", "n", "d", " ", "c", "o", "l", "o", "u", "r", " ", "f", "o", "r", " " >>, << "e", "x", "p", "l", "a", "i", "n", " " >>,
      << "r", "e", "s", "i", "s", "t", "o", "r", " " >> }

ValueTexts ==
    { << >>, << "2", "2", "0" >>, << "4", "7" >>, << "4", "7", " ", "a", "n", "d", " ", "4", ".", "7", "k", " ", "a", "n", "d", " ", "2", "2", "0" >> }

Tails == { << >>, << " ", "i", "m", "a", "g", "e" >>, << " ", "f", "r", "o", "m", " ", "w", "e", "b" >> }

Questions ==
    { i \o v \o t : i \in Intents, v \in ValueTexts, t \in Tails }
    \cup { << "H", "i" >>, << "G", "o", "o", "d", " ", " ", "m", "o", "r", "n", "i", "n", "g", "!", "!" >> }

Body(question, message) == [question |-> question, message |-> message]

JsNull == [ty |-> "null", s |-> << >>, items |-> << >>]
JsNumber == [ty |-> "number", s |-> << >>, items |-> << >>]

Bodies ==
    { Body(Str(q), Undefined) : q \in Questions }
    \cup { Body(Undefined, Undefined), Body(Str(<< >>), Str(<< "i", "g", "n", "o", "r", "e", "d" >>)),
           Body(JsNumber, Undefined), Body(JsNull, Str(<< "h", "e", "l", "l", "o" >>)),
           Body(Undefined, Str(<< "c", "o", "l", "o", "r", " ", "c", "o", "d", "e", " ", "o", "f", " ", "2", "2", "0", " ", "i", "m", "a", "g", "e" >>)) }

(***************************************************************************)
(* The steps of the chat route                                             *)
(***************************************************************************)
\* one call of tavilyEduSearch
InitWeb ==
    /\ cc = << >> /\ ex = << >>
    /\ env \in WebEnvs
    /\ req = NoCall /\ llm = NoCall
    /\ \E q \in WebQueries : web = NewWebCall(q)

\* one call of summarizeAndAnswer
InitLlm ==
    /\ cc = << >> /\ ex = << >>
    /\ env \in LlmEnvs
    /\ req = NoCall /\ web = NoCall
    /\ \E q \in WebQueries :
           llm = NewLlmCall(q, TextPlain.text, << >>)

\* one request
InitPost ==
    /\ cc = << >> /\ ex = << >>
    /\ env \in PostEnvs
    /\ \E b \in Bodies : req = NewRequest(b)
    /\ llm = NoCall /\ web = NoCall

TavilyEntry ==
    /\ web.pc = "entry"
    /\ web' = TavilyEntryStep(web)
    /\ UNCHANGED << calculator, env, req, llm >>

TavilyFetch ==
    /\ web.pc = "fetch"
    /\ \E resp \in env.tavily : web' = TavilyFetchStep(web, resp)
    /\ UNCHANGED << calculator, env, req, llm >>

LlmEntry ==
    /\ llm.pc = "entry"
    /\ llm' = LlmEntryStep(llm)
    /\ UNCHANGED << calculator, env, req, web >>

LlmInvoke ==
    /\ llm.pc = "loop"
    /\ \E out \in env.invoke : llm' = LlmInvokeStep(llm, out)
    /\ UNCHANGED << calculator, env, req, web >>

PostParse ==
    /\ req.pc = "parse"
    /\ req' = ParseStep(req)
    /\ UNCHANGED << calculator, env, llm, web >>

\* the call of summarizeAndAnswer a request at pc = "llm" makes
CallOf(s) == NewLlmCall(s.question, s.context, s.webBlob)

PostRetrieve ==
    /\ req.pc = "retrieve"
    /\ req' = RetrieveStep(req)
    /\ web' = IF req'.pc = "web" THEN NewWebCall(colorQ(req.question)) ELSE web
    /\ llm' = IF req'.pc = "llm" THEN CallOf(req') ELSE llm
    /\ UNCHANGED << calculator, env >>

PostAfterWeb ==
    /\ req.pc = "web" /\ web.pc = "done"
    /\ req' = AfterWebStep(req, web.result)
    /\ llm' = IF req'.pc = "llm" THEN CallOf(req') ELSE llm
    /\ UNCHANGED << calculator, env, web >>

PostFinish ==
    /\ req.pc = "llm" /\ llm.pc \in {"returned", "thrown"}
    /\ req' = FinishStep(req, llm)
    /\ UNCHANGED << calculator, env, llm, web >>

NextWeb == TavilyEntry \/ TavilyFetch

NextLlm == LlmEntry \/ LlmInvoke

NextPost ==
    \/ PostParse
    \/ PostRetrieve
    \/ TavilyEntry
    \/ TavilyFetch
    \/ PostAfterWeb
    \/ LlmEntry
    \/ LlmInvoke
    \/ PostFinish

SpecWeb == InitWeb /\ [][NextWeb]_vars

SpecLlm == InitLlm /\ [][NextLlm]_vars

\* every invocation of the model settles and the call goes on
SpecLlmFair == SpecLlm /\ WF_vars(LlmEntry) /\ WF_vars(LlmInvoke)

SpecPost == InitPost /\ [][NextPost]_vars

(***************************************************************************)
(* The context-or-general chat endpoint: the second route of the           *)
(* repository, with its own retrieveContext, generateAnswer and POST.  In  *)
(* its specification req holds the locals of a POST request of this       *)
(* endpoint and llm those of a call of generateAnswer.                     *)
(***************************************************************************)
\* the character U+2019 of the greeting of this endpoint
RightQuote == "<U+2019>"

\* /(procedure|precaution|apparatus|equipment|objective|aim|theory|definition|principle)s?/i
focusRegex ==
    << Alt({ << Lit(<< "p", "r", "o", "c", "e", "d", "u", "r", "e" >>) >>, << Lit(<< "p", "r", "e", "c", "a", "u", "t", "i", "o", "n" >>) >>,
             << Lit(<< "a", "p", "p", "a", "r", "a", "t", "u", "s" >>) >>, << Lit(<< "e", "q", "u", "i", "p", "m", "e", "n", "t" >>) >>,
             << Lit(<< "o", "b", "j", "e", "c", "t", "i", "v", "e" >>) >>, << Lit(<< "a", "i", "m" >>) >>,
             << Lit(<< "t", "h", "e", "o", "r", "y" >>) >>, << Lit(<< "d", "e", "f", "i", "n", "i", "t", "i", "o", "n" >>) >>,
             << Lit(<< "p", "r", "i", "n", "c", "i", "p", "l", "e" >>) >> }),
       Opt(<< Lit(<< "s" >>) >>) >>

\* line 816
hasFocusKeyword(query) == RegexTestI(focusRegex, query)

\* the limits of lines 835 and 841
FocusLimit == 20
PlainLimit == 8

QueryLimit(focus) == IF focus THEN FocusLimit ELSE PlainLimit

\* lines 829-845: the hybrid query when the collection has it and it answers
\* documents, the vector query otherwise.  (The query of lines 817-826 goes
\* to the services only: what they answer is db.)
FoundDocs(db, focus) ==
    IF Len(db.hybrid) > 0 THEN SliceTo(db.hybrid, QueryLimit(focus))
    ELSE SliceTo(db.vector, QueryLimit(focus))

\* typeof d?.text === "string" ? d.text : JSON.stringify(d)
DocText(d) == IF d.text.ty = "string" THEN d.text.s ELSE d.json

\* lines 847-849: .filter(Boolean) drops the empty strings
RawTexts(docs) ==
    SelectSeq([i \in 1..Len(docs) |-> DocText(docs[i])],
              LAMBDA s : s # << >>)

\* the loop of lines 854-861 before its first turn
NoPassages == [seen |-> {}, prioritized |-> << >>, tail |-> << >>]

\* lines 856-860 for the trimmed passage t
KeepPassage(acc, t, focus) ==
    IF t = << >> \/ t \in acc.seen THEN acc
    ELSE IF focus /\ RegexTestI(focusRegex, t)
    THEN [acc EXCEPT !.seen = @ \cup {t}, !.prioritized = Append(@, t)]
    ELSE [acc EXCEPT !.seen = @ \cup {t}, !.tail = Append(@, t)]

\* the loop of lines 854-861 from its turn i on
RECURSIVE SortPassages(_, _, _, _)
SortPassages(rawTexts, i, acc, focus) ==
    IF i > Len(rawTexts) THEN acc
    ELSE SortPassages(rawTexts, i + 1,
                      KeepPassage(acc, trim(rawTexts[i]), focus), focus)

\* line 862: both arms of the inner conditional are rawTexts
Ordered(rawTexts, sorted, focus) ==
    IF focus THEN sorted.prioritized \o sorted.tail
    ELSE IF Len(sorted.tail) > 0 THEN rawTexts ELSE rawTexts

\* ordered.slice(0, 5)
SnippetLimit == 5

\* context.length < 200
SparseLength == 200

\* lines 863-867
ContextOf(snippets, sorted, focus) ==
    [context  |-> Join(snippets, Separator),
     sources  |-> snippets,
     isSparse |-> ~(focus /\ Len(sorted.prioritized) > 0)
                      /\ Len(Join(snippets, Separator)) < SparseLength]

\* lines 846-867 for the texts of the documents found
ContextOfTexts(rawTexts, focus) ==
    ContextOf(SliceTo(Ordered(rawTexts,
                              SortPassages(rawTexts, 1, NoPassages, focus),
                              focus),
                      SnippetLimit),
              SortPassages(rawTexts, 1, NoPassages, focus), focus)

\* what retrieveContext returns for a query when the collection is in the
\* state db
retrieveContext(query, db) ==
    ContextOfTexts(RawTexts(FoundDocs(db, hasFocusKeyword(query))),
                   hasFocusKeyword(query))

\* the instructions of lines 881-903, by their names
Instruction(question, allowGeneral) ==
    IF ContainsAnyI({ << "t", "h", "e", "o", "r", "y" >>, << "d", "e", "f", "i", "n", "i", "t", "i", "o", "n" >>, << "p", "r", "i", "n", "c", "i", "p", "l", "e" >> }, question)
    THEN (IF allowGeneral THEN "instructionTheoryWithFallback"
          ELSE "instructionTheoryOnly")
    ELSE (IF allowGeneral THEN "instructionWithFallback"
          ELSE "instructionOnlyContext")

MissingGoogleKey ==
    << "M", "i", "s", "s", "i", "n", "g", " ", "G", "o", "o", "g", "l", "e", " ", "A", "P", "I", " ", "k", "e", "y", ".", " ", "S", "e", "t", " ", "G", "O", "O", "G", "L", "E", "_", "A", "P", "I", "_", "K", "E", "Y", " ", "(", "p", "r", "e", "f", "e", "r", "r", "e", "d", ")", " ", "o", "r", " ", "G", "E", "M", "I", "N", "I", "_", "A", "P", "I", "_", "K", "E", "Y", " ", "i", "n", " ", "y", "o", "u", "r", " ", "e", "n", "v", "i", "r", "o", "n", "m", "e", "n", "t", "." >>

\* `${c.v}:${c.m}`
TriedText(c) == c.v \o << ":" >> \o c.m

\* the message of lines 955-959
FailedToCall(candidates, lastErr) ==
    << "F", "a", "i", "l", "e", "d", " ", "t", "o", " ", "c", "a", "l", "l", " ", "G", "e", "m", "i", "n", "i", ".", " ", "T", "r", "i", "e", "d", ":", " " >>
        \o Join([i \in 1..Len(candidates) |-> TriedText(candidates[i])],
                << ",", " " >>)
        \o << ".", " ", "L", "a", "s", "t", " ", "e", "r", "r", "o", "r", ":", " " >> \o lastErr

\* the locals of one call of generateAnswer, at its entry
NewGenCall(question, context, allowGeneral) ==
    [pc |-> "entry", question |-> question, context |-> context,
     allowGeneral |-> allowGeneral, instruction |-> "", candidates |-> << >>,
     i |-> 1, tried |-> << >>, lastErr |-> << >>, answer |-> << >>,
     error |-> << >>]

\* lines 871-932: without an API key the call throws, with one it chooses
\* the instruction and builds the candidates (lines 912-932 are the code of
\* lines 552-569)
GenEntryStep(s) ==
    IF ~(env.GOOGLE_API_KEY \/ env.GEMINI_API_KEY)
    THEN [s EXCEPT !.pc = "thrown", !.error = MissingGoogleKey]
    ELSE [s EXCEPT !.pc = "loop",
                   !.instruction = Instruction(s.question, s.allowGeneral),
                   !.candidates = Candidates]

\* lines 944-947: res.content when it is a string, otherwise
\* res.lc_kwargs.content, and String(res) when that is missing
ResAnswer(res) ==
    IF res.content.ty = "string" THEN res.content.s
    ELSE IF res.kwargs.ty \notin {"undefined", "null"} THEN res.kwargs.s
    ELSE res.str

\* one turn of the loop of lines 935-953, then lines 955-959: the invocation
\* of candidate i settles with out
GenInvokeStep(s, out) ==
    IF ~out.throws
    THEN [s EXCEPT !.pc = "returned",
                   !.tried = Append(s.tried, s.candidates[s.i]),
                   !.answer = ResAnswer(out.res)]
    ELSE IF s.i < Len(s.candidates)
    THEN [s EXCEPT !.i = s.i + 1,
                   !.tried = Append(s.tried, s.candidates[s.i]),
                   !.lastErr = out.err]
    ELSE [s EXCEPT !.pc = "thrown", !.i = s.i + 1,
                   !.tried = Append(s.tried, s.candidates[s.i]),
                   !.lastErr = out.err,
                   !.error = FailedToCall(s.candidates, out.err)]

\* the greeting of lines 974-975
GreetingOfAsk ==
    << "H", "e", "l", "l", "o", "!", " ", "I", RightQuote, "m", " ", "t", "h", "e", " ", "V", "i", "r", "t", "u", "a", "l", " ", "L", "a", "b", " ", "I", "I", "T", " ", "R", "o", "o", "r", "k", "e", "e", " ", "a", "s", "s", "i", "s", "t", "a", "n", "t", ".", " ", "A", "s", "k", " ", "a", "b", "o", "u", "t", " ", "o", "b", "j", "e", "c", "t", "i", "v", "e", "s", ",", " ", "a", "p", "p", "a", "r", "a", "t", "u", "s", ",", " ", "p", "r", "o", "c", "e", "d", "u", "r", "e", ",", " ", "p", "r", "e", "c", "a", "u", "t", "i", "o", "n", "s", ",", " ", "o", "r", " ", "a", "n", "a", "l", "y", "s", "i", "s", ",", " ", "a", "n", "d", " ", "I", RightQuote, "l", "l", " ", "h", "e", "l", "p", " ", "y", "o", "u", "." >>

MissingEmbedKey ==
    << "G", "E", "M", "I", "N", "I", "_", "A", "P", "I", "_", "K", "E", "Y", " ", "i", "s", " ", "r", "e", "q", "u", "i", "r", "e", "d", " ", "f", "o", "r", " ", "g", "o", "o", "g", "l", "e", " ", "e", "m", "b", "e", "d", "d", "i", "n", "g", "s", ".", " ", "S", "e", "t", " ", "E", "M", "B", "E", "D", "_", "P", "R", "O", "V", "I", "D", "E", "R", "=", "x", "e", "n", "o", "v", "a", " ", "t", "o", " ", "u", "s", "e", " ", "l", "o", "c", "a", "l", " ", "e", "m", "b", "e", "d", "d", "i", "n", "g", "s", "." >>

\* lines 982-983
allowGeneralDefault ==
    (IF env.ALLOW_GENERAL_FALLBACK.ty \in {"undefined", "null"}
     THEN << "t", "r", "u", "e" >>
     ELSE toLowerCase(env.ALLOW_GENERAL_FALLBACK.s))
        \in { << "1" >>, << "t", "r", "u", "e" >>, << "y", "e", "s" >>, << "o", "n" >> }

\* lines 987-1004
patterns ==
    { << "i", " ", "d", "o", "n", "'", "t", " ", "k", "n", "o", "w" >>, << "i", " ", "d", "o", " ", "n", "o", "t", " ", "k", "n", "o", "w" >>, << "n", "o", "t", " ", "i", "n", " ", "t", "h", "e", " ", "c", "o", "n", "t", "e", "x", "t" >>,
      << "n", "o", "t", " ", "p", "r", "e", "s", "e", "n", "t", " ", "i", "n", " ", "t", "h", "e", " ", "c", "o", "n", "t", "e", "x", "t" >>, << "n", "o", "t", " ", "a", "v", "a", "i", "l", "a", "b", "l", "e", " ", "i", "n", " ", "t", "h", "e", " ", "c", "o", "n", "t", "e", "x", "t" >>,
      << "n", "o", "t", " ", "m", "e", "n", "t", "i", "o", "n", "e", "d", " ", "i", "n", " ", "t", "h", "e", " ", "c", "o", "n", "t", "e", "x", "t" >>, << "c", "o", "n", "t", "e", "x", "t", " ", "d", "o", "e", "s", " ", "n", "o", "t", " ", "i", "n", "c", "l", "u", "d", "e" >>,
      << "c", "a", "n", "n", "o", "t", " ", "f", "i", "n", "d" >>, << "c", "a", "n", "'", "t", " ", "f", "i", "n", "d" >>, << "i", "n", "s", "u", "f", "f", "i", "c", "i", "e", "n", "t", " ", "c", "o", "n", "t", "e", "x", "t" >>,
      << "n", "o", " ", "i", "n", "f", "o", "r", "m", "a", "t", "i", "o", "n" >>, << "i", "'", "m", " ", "s", "o", "r", "r", "y" >>, << "s", "o", "r", "r", "y", "," >>,
      << "p", "r", "o", "v", "i", "d", "e", "d", " ", "c", "o", "n", "t", "e", "x", "t", " ", "d", "o", "e", "s", " ", "n", "o", "t", " ", "i", "n", "c", "l", "u", "d", "e" >>,
      << "i", " ", "d", "o", "n", "'", "t", " ", "h", "a", "v", "e", " ", "t", "h", "e", " ", "i", "n", "f", "o", "r", "m", "a", "t", "i", "o", "n" >>,
      << "i", " ", "d", "o", " ", "n", "o", "t", " ", "h", "a", "v", "e", " ", "t", "h", "e", " ", "i", "n", "f", "o", "r", "m", "a", "t", "i", "o", "n" >> }

\* lines 985-1006
looksUnknownAnswer(text) ==
    \E p \in patterns : Contains(toLowerCase(text), p)

\* the locals of one request of this endpoint, at its entry; calls lists the
\* value of allowGeneral of every call of generateAnswer the request made
NewAsk(body) ==
    [pc |-> "parse", body |-> body, question |-> << >>,
     context |-> << >>, sources |-> << >>, isSparse |-> FALSE,
     calls |-> << >>, answer |-> << >>, response |-> NoResponse]

\* lines 964-977
AskParseStep(s) ==
    IF QuestionOf(s.body).ty # "string" \/ QuestionOf(s.body).s = << >>
    THEN Respond(s, ErrorResponse(400, MissingQuestion))
    ELSE IF RegexTestI(greetRe, toLowerCase(trim(QuestionOf(s.body).s)))
    THEN Respond([s EXCEPT !.question = QuestionOf(s.body).s],
                 AnswerResponse(GreetingOfAsk, << >>, Absent))
    ELSE [s EXCEPT !.pc = "retrieve", !.question = QuestionOf(s.body).s]

\* line 1009: the first call of generateAnswer
FirstCall(s, r, allowGeneral) ==
    [s EXCEPT !.pc = "first", !.context = r.context, !.sources = r.sources,
              !.isSparse = r.isSparse, !.calls = << allowGeneral >>]

\* lines 979-1009: retrieveContext throws without the Astra settings,
\* without the key of the embeddings, when the embedding fails and when the
\* vector query fails; otherwise generateAnswer is called
AskRetrieveStep(s) ==
    IF ~env.astra THEN Respond(s, ErrorResponse(500, MissingAstra))
    ELSE IF ~env.xenova /\ ~env.GEMINI_API_KEY
    THEN Respond(s, ErrorResponse(500, MissingEmbedKey))
    ELSE IF env.embedFails \/ (Len(env.db.hybrid) = 0 /\ env.db.findFails)
    THEN Respond(s, ErrorResponse(500, env.failure))
    ELSE FirstCall(s, retrieveContext(s.question, env.db),
                   allowGeneralDefault
                       \/ retrieveContext(s.question, env.db).isSparse)

\* NextResponse.json({ answer, sources })
AskAnswered(s, answer) ==
    Respond([s EXCEPT !.answer = answer],
            AnswerResponse(answer, s.sources, Absent))

\* lines 1009-1017 with a second call that keeps the value of allowGeneral
AskAfterFirstStepSameMode(s, l) ==
    IF l.pc = "thrown" THEN Respond(s, ErrorResponse(500, l.error))
    ELSE IF looksUnknownAnswer(l.answer)
    THEN [s EXCEPT !.pc = "retry", !.answer = l.answer,
                   !.calls = Append(@, s.calls[1])]
    ELSE AskAnswered(s, l.answer)

\* lines 1009-1017 once the first call l has ended: its answer is sent, or
\* generateAnswer is called again
AskAfterFirstStep(s, l) ==
    IF l.pc = "thrown" THEN Respond(s, ErrorResponse(500, l.error))
    ELSE IF looksUnknownAnswer(l.answer)
    THEN [s EXCEPT !.pc = "retry", !.answer = l.answer,
                   !.calls = Append(@, TRUE)]
    ELSE AskAnswered(s, l.answer)

\* lines 1013-1017 once the second call l has ended
AskAfterRetryStep(s, l) ==
    IF l.pc = "thrown" THEN Respond(s, ErrorResponse(500, l.error))
    ELSE AskAnswered(s, l.answer)

(***************************************************************************)
(* Inputs and steps of the context-or-general chat endpoint                *)
(***************************************************************************)
\* a document of the collection: its field text and its JSON text
AskDoc(text) == [text |-> Str(text), json |-> << "{", "\"", "t", "e", "x", "t", "\"", ":", "\"", ".", ".", ".", "\"", "}" >>]

\* a document without a field text
DocWithoutText == [text |-> Undefined, json |-> << "{", "\"", "_", "i", "d", "\"", ":", "\"", "7", "\"", "}" >>]

PassageOhm == AskDoc(<< "O", "h", "m", " ", "l", "a", "w", " ", "r", "e", "l", "a", "t", "e", "s", " ", "v", "o", "l", "t", "a", "g", "e", " ", "a", "n", "d", " ", "c", "u", "r", "r", "e", "n", "t" >>)
PassageProcedure == AskDoc(<< "1", ".", " ", "P", "r", "o", "c", "e", "d", "u", "r", "e", ":", " ", "c", "o", "n", "n", "e", "c", "t", " ", "t", "h", "e", " ", "c", "i", "r", "c", "u", "i", "t" >>)
PassageProcedurePadded == AskDoc(<< " ", " ", "1", ".", " ", "P", "r", "o", "c", "e", "d", "u", "r", "e", ":", " ", "c", "o", "n", "n", "e", "c", "t", " ", "t", "h", "e", " ", "c", "i", "r", "c", "u", "i", "t", " ", "\n" >>)
PassageApparatus == AskDoc(<< "A", "P", "P", "A", "R", "A", "T", "U", "S", ":", " ", "a", "m", "m", "e", "t", "e", "r", ",", " ", "v", "o", "l", "t", "m", "e", "t", "e", "r" >>)
PassageTheory == AskDoc(<< "T", "h", "e", "o", "r", "y", " ", "o", "f", " ", "t", "h", "e", " ", "s", "e", "r", "i", "e", "s", " ", "c", "i", "r", "c", "u", "i", "t" >>)
PassageBlank == AskDoc(<< " ", " ", " " >>)
PassageEmpty == AskDoc(<< >>)
PassageLong == AskDoc(<< "S", "a", "f", "e", "t", "y", " ", "r", "u", "l", "e", "s", " " >> \o [i \in 1..SparseLength |-> "."])

Note(i) == AskDoc(<< "N", "o", "t", "e", " " >> \o NumText(<< i >>))

\* more documents than a query without focus keyword asks for
ManyNotes == [i \in 1..PlainLimit |-> Note(i)] \o << PassageProcedure >>

AskCollections ==
    { << >>, << PassageOhm >>, << PassageLong >>,
      << PassageOhm, PassageProcedure, PassageApparatus >>,
      << PassageOhm, PassageBlank, PassageProcedure, PassageProcedurePadded,
         PassageApparatus, PassageOhm, PassageTheory >>,
      << PassageEmpty, DocWithoutText, PassageTheory >>,
      << PassageBlank, PassageOhm, PassageOhm >>,
      << PassageOhm, PassageApparatus, PassageOhm >>,
      ManyNotes }

AskDb(vector) == [vector |-> vector, hybrid |-> << >>, findFails |-> FALSE]

\* the states of the collection: without the hybrid query, with a hybrid
\* query that answers the documents in reverse, with a vector query that
\* fails
AskDbs ==
    { AskDb(c) : c \in AskCollections }
    \cup { [AskDb(c) EXCEPT !.hybrid = [i \in 1..Len(c) |-> c[Len(c) + 1 - i]],
                            !.findFails = TRUE] :
             c \in { << PassageOhm, PassageProcedure, PassageApparatus >> } }
    \cup { [AskDb(<< PassageOhm >>) EXCEPT !.findFails = TRUE] }

Res(content, kwargs) ==
    [content |-> content, kwargs |-> kwargs, str |-> << "[", "o", "b", "j", "e", "c", "t", " ", "O", "b", "j", "e", "c", "t", "]" >>]

Settles(res) == [throws |-> FALSE, res |-> res, err |-> << >>]

\* the ways an invocation of the model settles
AskOutcomes ==
    { [throws |-> TRUE, res |-> Res(Undefined, Undefined), err |-> << "q", "u", "o", "t", "a" >>],
      Settles(Res(Str(<< "U", "s", "e", " ", "t", "h", "e", " ", "c", "l", "a", "m", "p", " ", "m", "e", "t", "e", "r", "." >>), Undefined)),
      Settles(Res(Str(<< "I", " ", "d", "o", "n", "'", "t", " ", "k", "n", "o", "w", "." >>), Undefined)),
      Settles(Res(Undefined, Str(<< "S", "o", "r", "r", "y", ",", " ", "t", "h", "a", "t", " ", "i", "s", " ", "n", "o", "t", " ", "i", "n", " ", "t", "h", "e", " ", "c", "o", "n", "t", "e", "x", "t" >>))),
      Settles(Res(Str(<< >>), Undefined)),
      Settles(Res(Undefined, Undefined)) }

AskBase ==
    [astra |-> TRUE, xenova |-> FALSE, GEMINI_API_KEY |-> TRUE,
     GOOGLE_API_KEY |-> FALSE, GEMINI_MODEL |-> Unset,
     GEMINI_API_VERSION |-> Unset, ALLOW_GENERAL_FALLBACK |-> Undefined,
     embedFails |-> FALSE, failure |-> << "f", "e", "t", "c", "h", " ", "f", "a", "i", "l", "e", "d" >>,
     db |-> AskDb(<< >>), invoke |-> AskOutcomes]

\* every state of the collection with the default settings and with the
\* general fallback switched off; some of them with other spellings of the
\* switch, with a model of its own, with local embeddings and the Google
\* key, without any key, with a failing embedding, without the Astra
\* settings
AskEnvs ==
    { [AskBase EXCEPT !.db = d, !.ALLOW_GENERAL_FALLBACK = a] :
        d \in AskDbs, a \in { Undefined, Str(<< "f", "a", "l", "s", "e" >>) } }
    \cup { [AskBase EXCEPT !.db = AskDb(<< PassageLong >>),
                           !.ALLOW_GENERAL_FALLBACK = a] :
             a \in { Str(<< "Y", "E", "S" >>), Str(<< >>), Str(<< "0" >>), Str(<< "O", "n" >>) } }
    \cup { [AskBase EXCEPT !.db = AskDb(<< PassageLong >>),
                           !.ALLOW_GENERAL_FALLBACK = Str(<< "n", "o" >>),
                           !.GEMINI_MODEL = << "g", "e", "m", "i", "n", "i", "-", "p", "r", "o" >>,
                           !.GEMINI_API_VERSION = << "v", "1" >>],
           [AskBase EXCEPT !.xenova = TRUE, !.GEMINI_API_KEY = FALSE,
                           !.GOOGLE_API_KEY = TRUE],
           [AskBase EXCEPT !.xenova = TRUE, !.GEMINI_API_KEY = FALSE],
           [AskBase EXCEPT !.GEMINI_API_KEY = FALSE, !.GOOGLE_API_KEY = TRUE],
           [AskBase EXCEPT !.embedFails = TRUE],
           [AskBase EXCEPT !.astra = FALSE] }

AskBodies ==
    { Body(Str(q), Undefined) :
        q \in { << "W", "h", "a", "t", " ", "i", "s", " ", "t", "h", "e", " ", "p", "r", "o", "c", "e", "d", "u", "r", "e", "?" >>, << "o", "h", "m", " ", "l", "a", "w" >>, << "E", "x", "p", "l", "a", "i", "n", " ", "t", "h", "e", " ", "T", "H", "E", "O", "R", "Y" >>,
                << "H", "i" >> } }
    \cup { Body(Undefined, Undefined), Body(JsNumber, Undefined),
           Body(JsNull, Str(<< "l", "i", "s", "t", " ", "t", "h", "e", " ", "A", "i", "m", "s" >>)) }

\* one request to the endpoint
InitAsk ==
    /\ cc = << >> /\ ex = << >>
    /\ env \in AskEnvs
    /\ \E b \in AskBodies : req = NewAsk(b)
    /\ llm = NoCall /\ web = NoCall

\* the call of generateAnswer a request makes when it enters pc = "first"
\* or pc = "retry"
GenCallOf(s) ==
    NewGenCall(s.question, s.context, s.calls[Len(s.calls)])

AskParse ==
    /\ req.pc = "parse"
    /\ req' = AskParseStep(req)
    /\ UNCHANGED << calculator, env, llm, web >>

AskRetrieve ==
    /\ req.pc = "retrieve"
    /\ req' = AskRetrieveStep(req)
    /\ llm' = IF req'.pc = "first" THEN GenCallOf(req') ELSE llm
    /\ UNCHANGED << calculator, env, web >>

GenEntry ==
    /\ llm.pc = "entry"
    /\ llm' = GenEntryStep(llm)
    /\ UNCHANGED << calculator, env, req, web >>

GenInvoke ==
    /\ llm.pc = "loop"
    /\ \E out \in env.invoke : llm' = GenInvokeStep(llm, out)
    /\ UNCHANGED << calculator, env, req, web >>

AskAfterFirst ==
    /\ req.pc = "first" /\ llm.pc \in {"returned", "thrown"}
    /\ req' = AskAfterFirstStep(req, llm)
    /\ llm' = IF req'.pc = "retry" THEN GenCallOf(req') ELSE llm
    /\ UNCHANGED << calculator, env, web >>

AskAfterRetry ==
    /\ req.pc = "retry" /\ llm.pc \in {"returned", "thrown"}
    /\ req' = AskAfterRetryStep(req, llm)
    /\ UNCHANGED << calculator, env, llm, web >>

NextAsk ==
    \/ AskParse
    \/ AskRetrieve
    \/ GenEntry
    \/ GenInvoke
    \/ AskAfterFirst
    \/ AskAfterRetry

SpecAsk == InitAsk /\ [][NextAsk]_vars

(***************************************************************************)
(* Vocabulary of the properties                                            *)
(***************************************************************************)
\* a finite number >= 0 without fractional part
IsInteger(x) ==
    /\ x.k = "fin" /\ ~x.neg
    /\ x.e < 0 => BNShl(BNShr(x.m, 0 - x.e), 0 - x.e) = x.m

\* x = n * 10^p exactly, for naturals n and p
IsNatTimesPow10(x, n, p) ==
    IsInteger(x) /\ NumFloor(x) = BNMulPow10(BNFromSmall(n), p)

\* x >= 10^p
GePow10(x, p) ==
    x.k = "fin" /\ ~x.neg /\ BNGe(NumFloor(x), BNMulPow10(<< 1 >>, p))

ColorNames == { digitColor[i] : i \in 1..Len(digitColor) }

\* the digit or exponent a colour name stands for
ColorIndex(name) == CHOOSE i \in 0..9 : digitColor[i + 1] = name

Ohms(tok) == parseFloat(tok)

Ohms220 == Ohms(<< "2", "2", "0" >>)
Ohms4700 == Ohms(<< "4", "7", "0", "0" >>)
Ohms4750 == Ohms(<< "4", "7", "5", "0" >>)
OhmsMilli == Ohms(<< "0", ".", "0", "0", "1" >>)
Ohms1e10 == Ohms(<< "1", "0", "0", "0", "0", "0", "0", "0", "0", "0", "0" >>)
Ohms1e11 == Ohms(<< "1", "0", "0", "0", "0", "0", "0", "0", "0", "0", "0", "0" >>)

Returned(c) == cc[c].pc = "done"

\* C1 (as amended): computeResistorColorCode(220) returns
\* fourBand = [Red, Red, Brown, Gold] and
\* fiveBand = [Red, Red, Black, Black, Gold]: 220 = 220 x 10^0, so the
\* 5-band multiplier is Black.
C1_ColorCode220 ==
    \A c \in DOMAIN cc :
        Returned(c) /\ cc[c].ohms = Ohms220 =>
            cc[c].result = [isNull |-> FALSE,
                            fourBand |-> << "Red", "Red", "Brown", Gold >>,
                            fiveBand |-> << "Red", "Red", "Black", "Black",
                                            Gold >>]

C1_Witness ==
    \E c \in DOMAIN cc :
        Returned(c) /\ cc[c].ohms = Ohms220 /\ ~cc[c].result.isNull

\* C1 as stated: the 5-band sequence of 220 is [Red, Red, Black, Brown, Gold].
C1_Original ==
    \A c \in DOMAIN cc :
        Returned(c) /\ cc[c].ohms = Ohms220 =>
            cc[c].result = [isNull |-> FALSE,
                            fourBand |-> << "Red", "Red", "Brown", Gold >>,
                            fiveBand |-> << "Red", "Red", "Black", "Brown",
                                            Gold >>]

\* the value a 4-band result decodes to is ohms
Decodes4(ohms, four) ==
    IsNatTimesPow10(ohms, 10 * ColorIndex(four[1]) + ColorIndex(four[2]),
                    ColorIndex(four[3]))

\* the value a 5-band result decodes to is ohms
Decodes5(ohms, five) ==
    IsNatTimesPow10(ohms,
                    100 * ColorIndex(five[1]) + 10 * ColorIndex(five[2])
                        + ColorIndex(five[3]),
                    ColorIndex(five[4]))

NamedOhms == { Ohms(t) : t \in NamedTokens }

\* C2: for every ohms in {1, 10, 47, 220, 330, 1000, 2200, 4700, 10000,
\* 100000, 1000000} the result is non-null and both band sequences decode
\* (digits times 10^multiplier) to exactly ohms.
C2_NamedValuesDecode ==
    \A c \in DOMAIN cc :
        Returned(c) /\ cc[c].ohms \in NamedOhms =>
            /\ ~cc[c].result.isNull
            /\ Decodes4(cc[c].ohms, cc[c].result.fourBand)
            /\ Decodes5(cc[c].ohms, cc[c].result.fiveBand)

\* not finite, or not positive
Invalid(x) == x.k # "fin" \/ x.neg \/ Len(x.m) = 0

\* C3: the result is null only for values that are non-finite,
\* non-positive, below 1 ohm or at least 10^11 (needing a multiplier above
\* 10^9), and it is non-null for every finite value from 10 ohm up to
\* 10^11 (the values two digits and a multiplier 10^0..10^9 express).
C3_NullOnlyOutOfRange ==
    \A c \in DOMAIN cc :
        Returned(c) =>
            /\ cc[c].result.isNull =>
                 \/ Invalid(cc[c].ohms)
                 \/ NumLt(cc[c].ohms, 1)
                 \/ GePow10(cc[c].ohms, 11)
            /\ ~Invalid(cc[c].ohms) /\ NumGe(cc[c].ohms, 10)
                 /\ ~GePow10(cc[c].ohms, 11) => ~cc[c].result.isNull

\* the 4-band mantissa in [10,100) needs a negative or a two-digit exponent
NeedsBadExponent(x) ==
    ~Invalid(x) /\ (NumLt(x, 10) \/ GePow10(x, 11))

\* C4 (as amended): the result is null for every value whose multiplier
\* would need a two-digit or negative exponent; in particular for 0.001 and
\* for 10^11.
C4_NullBeyondMultiplier ==
    \A c \in DOMAIN cc :
        /\ Returned(c) /\ NeedsBadExponent(cc[c].ohms) => cc[c].result.isNull
        /\ Returned(c) /\ cc[c].ohms \in {OhmsMilli, Ohms1e11} =>
               cc[c].result.isNull

C4_Witness ==
    /\ NeedsBadExponent(OhmsMilli) /\ NeedsBadExponent(Ohms1e11)
    /\ \E c \in DOMAIN cc :
          Returned(c) /\ cc[c].ohms = Ohms1e11 /\ cc[c].result.isNull

\* C4 as stated: ... in particular the result is null for 0.001 and for
\* 10^10.
C4_Original ==
    \A c \in DOMAIN cc :
        /\ Returned(c) /\ NeedsBadExponent(cc[c].ohms) => cc[c].result.isNull
        /\ Returned(c) /\ cc[c].ohms \in {OhmsMilli, Ohms1e10} =>
               cc[c].result.isNull

\* C5: for an input that is zero, negative, NaN or infinite the call goes
\* from its entry straight to returning null: it is never inside a
\* normalisation loop and never assigns a mantissa or an exponent.
C5_InvalidInputReturnsNull ==
    \A c \in DOMAIN cc :
        Invalid(cc[c].ohms) =>
            /\ cc[c].pc \in {"check", "done"}
            /\ cc[c].m4 = Zero /\ cc[c].p4 = 0
            /\ cc[c].m5 = Zero /\ cc[c].p5 = 0
            /\ Returned(c) => cc[c].result = Null

C5_Witness ==
    \E c \in DOMAIN cc :
        cc[c].ohms \in {NaN, Infinity, NegInfinity, Zero} /\ Returned(c)
            /\ cc[c].result = Null

\* C6: a non-null result has exactly 4 entries in fourBand and 5 in
\* fiveBand; every entry but the last is one of the ten colour names (never
\* undefined) and the last is the fixed tolerance string.
C6_ResultShape ==
    \A c \in DOMAIN cc :
        Returned(c) /\ ~cc[c].result.isNull =>
            LET four == cc[c].result.fourBand
                five == cc[c].result.fiveBand
            IN  /\ Len(four) = 4 /\ Len(five) = 5
                /\ \A i \in 1..3 : four[i] \in ColorNames
                /\ \A i \in 1..4 : five[i] \in ColorNames
                /\ four[4] = Gold /\ five[5] = Gold

C6_Witness ==
    \E c \in DOMAIN cc :
        Returned(c) /\ ~cc[c].result.isNull
            /\ cc[c].result.fourBand[3] = "White"

\* C7: for an integer ohms with a non-null result, the first two fourBand
\* colours are those of the two leading decimal digits of ohms (truncated,
\* not rounded) and the third is the colour indexed by the number of
\* decimal digits minus 2; 4700 gives [Yellow, Violet, Red, Gold].
C7_FourBandLeadingDigits ==
    \A c \in DOMAIN cc :
        Returned(c) /\ ~cc[c].result.isNull /\ IsInteger(cc[c].ohms) =>
            LET dd   == DecDigits(NumFloor(cc[c].ohms))
                four == cc[c].result.fourBand
            IN  /\ Len(dd) >= 2
                /\ four[1] = ArrayAt(digitColor, dd[1])
                /\ four[2] = ArrayAt(digitColor, dd[2])
                /\ four[3] = ArrayAt(multiplierColor, Len(dd) - 2)
                /\ cc[c].ohms = Ohms4700 =>
                       four = << "Yellow", "Violet", "Red", Gold >>

C7_Witness ==
    \E c \in DOMAIN cc :
        Returned(c) /\ cc[c].ohms = Ohms4750
            /\ cc[c].result.fourBand = << "Yellow", "Violet", "Red", Gold >>

\* C8: for an integer ohms with a non-null result, the 5-band mantissa lies
\* in [100,1000), the first three fiveBand colours are those of the three
\* leading decimal digits of ohms (the truncated mantissa), and the fourth
\* is the colour indexed by the exponent p in 0..9 with
\* mantissa x 10^p = ohms (up to the digits truncation drops).
C8_FiveBandLeadingDigits ==
    \A c \in DOMAIN cc :
        Returned(c) /\ ~cc[c].result.isNull /\ IsInteger(cc[c].ohms) =>
            LET dd   == DecDigits(NumFloor(cc[c].ohms))
                five == cc[c].result.fiveBand
                p    == cc[c].p5
                mant == NumFloor(cc[c].m5)
            IN  /\ Len(dd) >= 3
                /\ NumGe(cc[c].m5, 100) /\ NumLt(cc[c].m5, 1000)
                /\ BNToSmall(mant) = 100 * dd[1] + 10 * dd[2] + dd[3]
                /\ \A i \in 1..3 : five[i] = ArrayAt(digitColor, dd[i])
                /\ p \in 0..9 /\ p = Len(dd) - 3
                /\ five[4] = ArrayAt(multiplierColor, p)
                /\ BNGe(NumFloor(cc[c].ohms), BNMulPow10(mant, p))
                /\ ~BNGe(NumFloor(cc[c].ohms), BNMulPow10(BNInc(mant), p))

C8_Witness ==
    \E c \in DOMAIN cc :
        Returned(c) /\ ~cc[c].result.isNull /\ IsInteger(cc[c].ohms)
            /\ cc[c].p5 >= 2 /\ cc[c].result.fiveBand[3] = "White"

\* C9: calls keep no state between them: however the steps of the calls in
\* progress interleave, every call returns what one call alone returns for
\* its argument, so calls with the same input return the same output.
C9_CallsAreIsolated ==
    /\ \A c \in DOMAIN cc :
          Returned(c) => cc[c].result = computeResistorColorCode(cc[c].ohms)
    /\ \A c \in DOMAIN ex :
          ex[c].pc = "done" => ex[c].result = extractOhmValues(ex[c].text)
    /\ \A c, d \in DOMAIN cc :
          Returned(c) /\ Returned(d) /\ cc[c].ohms = cc[d].ohms =>
              cc[c].result = cc[d].result
    /\ \A c, d \in DOMAIN ex :
          ex[c].pc = "done" /\ ex[d].pc = "done" /\ ex[c].text = ex[d].text =>
              ex[c].result = ex[d].result

C9_Witness ==
    \E c, d \in DOMAIN cc :
        /\ c # d /\ Returned(c) /\ Returned(d)
        /\ cc[c].ohms = Ohms220 /\ cc[d].ohms = Ohms4750
        /\ ~cc[c].result.isNull /\ ~cc[d].result.isNull

\* the scaled value of every numeric token of text from index pos on, one
\* entry per token
RECURSIVE TokenValues(_, _)
TokenValues(text, pos) ==
    LET m == NextMatch(text, pos)
    IN  IF ~m.found THEN << >>
        ELSE << NumMulPow10(parseFloat(m.m1), FactorExp(toLowerCase(m.m2))) >>
             \o TokenValues(text, m.last)

\* index of the first entry of seq equal to v
FirstIndex(seq, v) == CHOOSE i \in 1..Len(seq) :
                          seq[i] = v /\ \A j \in 1..(i - 1) : seq[j] # v

\* C10: the result holds each token value exactly once, in the order of
\* the values' first tokens; "220 220" gives [220] and "1k 1000" gives
\* [1000].
C10_DistinctInFirstAppearanceOrder ==
    \A c \in DOMAIN ex :
        ex[c].pc = "done" =>
            LET all == TokenValues(ex[c].text, 1)
                out == ex[c].result
            IN  /\ \A i, j \in 1..Len(out) : i # j => out[i] # out[j]
                /\ { out[i] : i \in 1..Len(out) }
                       = { all[i] : i \in 1..Len(all) }
                /\ \A i, j \in 1..Len(out) :
                       i < j => FirstIndex(all, out[i]) < FirstIndex(all, out[j])
                /\ ex[c].text = << "2", "2", "0", " ", "2", "2", "0" >> => out = << Ohms220 >>
                /\ ex[c].text = << "1", "k", " ", "1", "0", "0", "0" >> =>
                       out = << Ohms(<< "1", "0", "0", "0" >>) >>

C10_Witness ==
    \E c \in DOMAIN ex :
        /\ ex[c].pc = "done"
        /\ Len(ex[c].result) >= 2
        /\ Len(TokenValues(ex[c].text, 1)) > Len(ex[c].result)
        /\ ex[c].result[1] = Ohms(<< "1", "0", "0", "0" >>)

\* the power of ten a magnitude suffix stands for, as the suffix is written
SuffixScale(suf) ==
    CASE suf \in { << "k" >>, << "K" >> } -> 3
      [] suf \in { << "M" >>, << "m", "e", "g", "a" >> } -> 6
      [] suf \in { << "G" >>, << "g" >> } -> 9
      [] OTHER -> 0

\* the numeric tokens of text from index pos on, each scaled by the suffix
\* written after it
RECURSIVE ScaledTokenValues(_, _)
ScaledTokenValues(text, pos) ==
    LET m == NextMatch(text, pos)
    IN  IF ~m.found THEN {}
        ELSE { NumMulPow10(parseFloat(m.m1), SuffixScale(m.m2)) }
             \cup ScaledTokenValues(text, m.last)

SuffixNums == { << "4", ".", "7" >>, << "2", "2", "0" >>, << "2", ".", "0", "1" >> }

SuffixGaps == { << >>, << " " >> }

WrittenSuffixes ==
    { SuffixAlternatives[n] : n \in 1..Len(SuffixAlternatives) } \cup { << >> }

SuffixRests ==
    { << >>, << " ", "a", "n", "d", " ", "2", "0", "1", "0", " ", "o", "h", "m" >> }

ResistorOf47kAnd220 ==
    << "r", "e", "s", "i", "s", "t", "o", "r", " ", "o", "f", " ", "4", ".", "7", "k", " ", "a", "n", "d", " ", "2", "2", "0", " ", "o", "h", "m" >>

\* C11: every numeric token is scaled by the suffix that follows it,
\* directly or after white space: k or K by 10^3, M or mega by 10^6, G or g
\* by 10^9, no suffix by 1; "resistor of 4.7k and 220 ohm" gives
\* [4700, 220].
C11_ScaledBySuffix ==
    \A c \in DOMAIN ex :
        ex[c].pc = "done" =>
            LET out == ex[c].result
            IN  /\ { out[i] : i \in 1..Len(out) }
                       = ScaledTokenValues(ex[c].text, 1)
                /\ \A num \in SuffixNums, gap \in SuffixGaps,
                      suf \in WrittenSuffixes, rest \in SuffixRests :
                       ex[c].text = num \o gap \o suf \o rest =>
                           /\ Len(out) >= 1
                           /\ out[1] = NumMulPow10(parseFloat(num),
                                                   SuffixScale(suf))
                /\ ex[c].text = ResistorOf47kAnd220 =>
                       /\ out = << Ohms4700, Ohms220 >>
                       /\ IsNatTimesPow10(out[1], 47, 2)

C11_Witness ==
    \E c \in DOMAIN ex :
        /\ ex[c].pc = "done"
        /\ ex[c].text = << "4", ".", "7", " ", "m", "e", "g", "a" >>
        /\ ex[c].result = << Ohms(<< "4", "7", "0", "0", "0", "0", "0" >>) >>

(***************************************************************************)
(* Properties of the chat route                                            *)
(***************************************************************************)
\* the request has been answered after its retrieval
Answered == req.pc = "done" /\ req.response.status = 200
                /\ req.response.similarity # Absent

\* the request was answered with images
ImageBranch == asksImage(req.question) /\ Len(req.images) > 0

\* the request was answered without the model: both sources were blank
BlankBranch ==
    Answered /\ ~ImageBranch /\ IsBlank(req.context) /\ IsBlank(req.webBlob)

\* the call of summarizeAndAnswer has ended and the request was answered
\* after it
ModelBranch ==
    Answered /\ ~ImageBranch /\ llm.pc \in {"returned", "thrown"}

\* the final answer before the colour-code fallback: the trimmed answer of
\* the model, or the context fallback
FinalBefore ==
    IF llm.pc = "returned" THEN trim(llm.answer)
    ELSE IF ~IsBlank(req.context)
    THEN (IF Len(req.context) > 1200
          THEN SubSeq(req.context, 1, 1200) \o << " ", ".", ".", "." >> ELSE req.context)
    ELSE DontKnow

\* the question asks for a colour code
ColorQuestion ==
    \/ Contains(toLowerCase(req.question), << "c", "o", "l", "o", "r", " ", "c", "o", "d", "e" >>)
    \/ Contains(toLowerCase(req.question), << "b", "a", "n", "d", " ", "c", "o", "l", "o", "u", "r" >>)

\* the extracted values that have a colour code, in extraction order
CodedValues ==
    SelectSeq(extractOhmValues(req.question),
              LAMBDA v : ~computeResistorColorCode(v).isNull)

\* the deterministic colour-code path ran
ColorPathRan ==
    /\ Answered /\ ColorQuestion
    /\ \/ BlankBranch
       \/ ModelBranch /\ (FinalBefore = << >> \/ looksUnknown(FinalBefore))

\* the entries of the answer are those of the values that have a colour code
EntriesMatch(parts) ==
    LET coded == CodedValues
        codes == [i \in 1..Len(coded) |-> computeResistorColorCode(coded[i])]
    IN  /\ Len(parts) = Len(coded)
        /\ \A i \in 1..Len(parts) :
               /\ StartsWith(parts[i], 1,
                      << "-", " " >> \o NumText(NumRound(coded[i])) \o << " ", OmegaSign, ":" >>)
               /\ Contains(parts[i], Chars(codes[i].fourBand[1]) \o << " ", "-", " " >>
                                         \o Chars(codes[i].fourBand[2]))
               /\ endsWith(parts[i], Chars(codes[i].fiveBand[4]) \o << " ", "-", " " >>
                                         \o Chars(Gold))

\* C12: in both deterministic colour-code paths the answer has one entry
\* per extracted value whose colour code is non-null, in extraction order;
\* a value whose colour code is null is left out and the entries of the other
\* values stay; no request ends with status 500 but one whose retrieval
\* failed.
C12_OneEntryPerCodedValue ==
    /\ ColorPathRan => EntriesMatch(req.parts)
    /\ Answered /\ Len(req.parts) > 0 =>
           /\ EntriesMatch(req.parts)
           /\ req.response.answer
                  = << "R", "e", "s", "i", "s", "t", "o", "r", " ", "c", "o", "l", "o", "r", " ", "c", "o", "d", "e", ":", "\n", "\n" >> \o Join(req.parts, << "\n" >>)
    /\ req.pc = "done" /\ req.response.status = 500 => ~env.astra

C12_Witness ==
    /\ ColorPathRan /\ ModelBranch
    /\ Len(extractOhmValues(req.question)) = 3
    /\ computeResistorColorCode(extractOhmValues(req.question)[1]).isNull
    /\ Len(req.parts) = 2

\* the blank path of C12 with a value left out
C12_BlankPathReached ==
    /\ ColorPathRan /\ BlankBranch
    /\ Len(extractOhmValues(req.question)) = 3
    /\ Len(req.parts) = 2

\* the request is answered "I don't know." with no sources, and the model
\* was not called
DontKnowWithoutModel ==
    /\ req.response.answer = << "I", " ", "d", "o", "n", "'", "t", " ", "k", "n", "o", "w", "." >>
    /\ req.response.sources = << >>
    /\ llm = NoCall

\* no extracted value of a colour-code question has a colour code, or the
\* question is no colour-code question
NothingToCompute == ~ColorQuestion \/ Len(CodedValues) = 0

\* C13 (as amended): when the request is not answered from retrieved images
\* (the question has no image word, or no image path was retrieved), the
\* retrieved context and the web blob are both blank and no extracted value
\* of a colour-code question yields a non-null colour code (or the question
\* is not a colour-code question), the answer is exactly "I don't know."
\* with an empty sources list and the model is not invoked.
C13_DontKnowWhenBlank ==
    BlankBranch /\ NothingToCompute => DontKnowWithoutModel

C13_Witness ==
    /\ BlankBranch /\ ColorQuestion
    /\ Len(extractOhmValues(req.question)) = 1 /\ Len(CodedValues) = 0
    /\ req.searched /\ web.pc = "done"
    /\ DontKnowWithoutModel

\* C13 as stated: whenever the retrieved context and the web blob are both
\* blank and there is nothing to compute, the answer is "I don't know."
C13_Original ==
    Answered /\ IsBlank(req.context) /\ IsBlank(req.webBlob)
        /\ NothingToCompute => DontKnowWithoutModel

\* the final answer before the fallback is empty or looks unknown
NothingUseful == FinalBefore = << >> \/ looksUnknown(FinalBefore)

\* C14: after the call of the model, a colour-code question with at least
\* one value that has a colour code and a final answer that is empty or
\* looks unknown is answered with the computed colour-code text; a final
\* answer that is non-empty and does not look unknown is returned as it is,
\* which for an answer of the model is its trimmed text.
C14_FallbackOnlyWhenUseless ==
    ModelBranch =>
        /\ ColorQuestion /\ Len(CodedValues) > 0 /\ NothingUseful =>
               /\ req.response.answer =
                      << "R", "e", "s", "i", "s", "t", "o", "r", " ", "c", "o", "l", "o", "r", " ", "c", "o", "d", "e", ":", "\n", "\n" >> \o Join(req.parts, << "\n" >>)
               /\ EntriesMatch(req.parts)
        /\ ~NothingUseful =>
               /\ req.response.answer = FinalBefore
               /\ llm.pc = "returned" => req.response.answer = trim(llm.answer)

C14_Witness ==
    /\ ModelBranch /\ llm.pc = "returned"
    /\ llm.answer = << "I", " ", "d", "o", "n", "'", "t", " ", "k", "n", "o", "w", "." >>
    /\ ColorQuestion /\ Len(CodedValues) = 2
    /\ StartsWith(req.response.answer, 1, << "R", "e", "s", "i", "s", "t", "o", "r", " ", "c", "o", "l", "o", "r", " ", "c", "o", "d", "e", ":" >>)

\* the answer of the model is kept, trimmed
C14_ModelAnswerKept ==
    /\ ModelBranch /\ llm.pc = "returned" /\ ColorQuestion /\ Len(CodedValues) > 0
    /\ llm.answer = << " ", "U", "s", "e", " ", "t", "h", "e", " ", "c", "o", "l", "o", "u", "r", " ", "c", "h", "a", "r", "t", ".", " " >>
    /\ req.response.answer = << "U", "s", "e", " ", "t", "h", "e", " ", "c", "o", "l", "o", "u", "r", " ", "c", "h", "a", "r", "t", "." >>

\* the call of summarizeAndAnswer failed: no API key, or every candidate threw
ModelFailed == req.pc = "done" /\ llm.pc = "thrown"

\* the colour-code fallback replaced the final answer
FallbackReplaced ==
    /\ ColorQuestion /\ Len(CodedValues) > 0 /\ NothingUseful
    /\ StartsWith(req.response.answer, 1, << "R", "e", "s", "i", "s", "t", "o", "r", " ", "c", "o", "l", "o", "r", " ", "c", "o", "d", "e", ":" >>)

\* C15: a failed call of the model never ends the request with an error
\* response: the status is 200 and the answer is the context, cut to its
\* first 1200 characters plus " ..." when it is longer, or "I don't know."
\* for a blank context, unless the colour-code fallback replaced it.
C15_ModelFailureIsGraceful ==
    ModelFailed =>
        /\ req.response.status = 200
        /\ req.response.hasAnswer /\ req.response.error = << >>
        /\ \/ FallbackReplaced
           \/ /\ ~IsBlank(req.context)
              /\ Len(req.context) <= 1200
              /\ req.response.answer = req.context
           \/ /\ ~IsBlank(req.context)
              /\ Len(req.context) > 1200
              /\ Len(req.response.answer) = 1204
              /\ \A i \in 1..1200 : req.response.answer[i] = req.context[i]
              /\ endsWith(req.response.answer, << " ", ".", ".", "." >>)
           \/ /\ IsBlank(req.context)
              /\ req.response.answer = << "I", " ", "d", "o", "n", "'", "t", " ", "k", "n", "o", "w", "." >>

C15_Witness ==
    /\ ModelFailed /\ env.apiKey /\ Len(llm.tried) > 1
    /\ Len(req.context) > 1200
    /\ Len(req.response.answer) = 1204
    /\ req.response.status = 200

\* without an API key the answer is the short context
C15_NoKeyWitness ==
    /\ ModelFailed /\ ~env.apiKey /\ llm.tried = << >>
    /\ ~IsBlank(req.context) /\ req.response.answer = req.context

(***************************************************************************)
(* Properties of summarizeAndAnswer                                        *)
(***************************************************************************)
\* the call has ended
LlmEnded == llm.pc \in {"returned", "thrown"}

\* the place of a pair in the preference order: its first place in the list
\* of lines 552-562, 0 when it is not in the list
PlaceOf(c) ==
    IF \E j \in 1..Len(Preferred) : Preferred[j] = c
    THEN CHOOSE j \in 1..Len(Preferred) :
             /\ Preferred[j] = c
             /\ \A k \in 1..(j - 1) : Preferred[k] # c
    ELSE 0

\* the pairs of the preference order
DistinctPairs == { Preferred[j] : j \in 1..Len(Preferred) }

\* the pairs tried so far are the first pairs of the preference order, each
\* once, the configured pair first
TriedInOrder ==
    /\ \A k \in 1..Len(llm.tried) : PlaceOf(llm.tried[k]) > 0
    /\ \A j, k \in 1..Len(llm.tried) :
           j < k => PlaceOf(llm.tried[j]) < PlaceOf(llm.tried[k])
    /\ \A c \in DistinctPairs :
           (\E k \in 1..Len(llm.tried) : PlaceOf(c) < PlaceOf(llm.tried[k]))
               => \E j \in 1..Len(llm.tried) : llm.tried[j] = c
    /\ env.GEMINI_MODEL # << >> /\ env.GEMINI_API_VERSION # << >>
           /\ Len(llm.tried) > 0 =>
               llm.tried[1] = [v |-> env.GEMINI_API_VERSION, m |-> env.GEMINI_MODEL]
    /\ Len(llm.tried) <= Cardinality(DistinctPairs)

\* the call returns the answer of the one invocation that did not throw,
\* the last one
ReturnsFirstSuccess ==
    llm.pc = "returned" =>
        /\ Len(llm.tried) > 0
        /\ (llm.lastErr = "error") = (Len(llm.tried) > 1)
        /\ \E out \in env.invoke :
               ~out.throws /\ llm.answer = AnswerOf(out.msg)

\* every pair has been tried and the last invocation threw
AllTriedAndFailed ==
    /\ { llm.tried[k] : k \in 1..Len(llm.tried) } = DistinctPairs
    /\ llm.lastErr = "error"

\* a step of the call is one invocation, of a pair not tried before, and an
\* ended call makes no step
OneAttemptPerStep ==
    /\ llm.pc = "loop" /\ llm' # llm =>
           /\ Len(llm'.tried) = Len(llm.tried) + 1
           /\ SubSeq(llm'.tried, 1, Len(llm.tried)) = llm.tried
           /\ llm'.pc = "loop" => llm'.lastErr = "error"
    /\ llm.pc = "entry" => llm'.tried = << >>
    /\ LlmEnded => llm' = llm

\* C16 (as amended): once the API key is found, summarizeAndAnswer invokes
\* the model on the (apiVersion, model) pairs in preference order, the
\* configured pair first when GEMINI_MODEL and GEMINI_API_VERSION are both
\* set, never the same pair twice; it stops at the first invocation that
\* does not throw and returns its answer, throws only after every pair has
\* been tried and failed, and always ends after at most one attempt per
\* distinct pair. Without an API key it throws before any invocation.
C16_CandidatesInOrderOnce ==
    /\ [](TriedInOrder /\ ReturnsFirstSuccess)
    /\ [](llm.pc = "thrown" =>
              IF env.apiKey THEN AllTriedAndFailed ELSE llm.tried = << >>)
    /\ [][OneAttemptPerStep]_vars
    /\ <>LlmEnded

C16_Witness ==
    /\ llm.pc = "returned" /\ Len(llm.tried) = 3
    /\ env.GEMINI_MODEL = << "g", "e", "m", "i", "n", "i", "-", "1", ".", "5", "-", "f", "l", "a", "s", "h" >>
    /\ env.GEMINI_API_VERSION = << "v", "1" >>
    /\ llm.tried[1] = [v |-> << "v", "1" >>, m |-> << "g", "e", "m", "i", "n", "i", "-", "1", ".", "5", "-", "f", "l", "a", "s", "h" >>]
    /\ llm.tried[2] = [v |-> << "v", "1", "b", "e", "t", "a" >>, m |-> << "g", "e", "m", "i", "n", "i", "-", "1", ".", "5", "-", "f", "l", "a", "s", "h" >>]
    /\ llm.tried[3] = [v |-> << "v", "1" >>, m |-> << "g", "e", "m", "i", "n", "i", "-", "1", ".", "5", "-", "f", "l", "a", "s", "h", "-", "8", "b" >>]
    /\ llm.answer = << "F", "r", "o", "m", " ", "t", "e", "x", "t" >>

\* C16 as stated: the call throws only after every pair has been tried and
\* failed
C16_Original ==
    /\ [](TriedInOrder /\ ReturnsFirstSuccess)
    /\ [](llm.pc = "thrown" => AllTriedAndFailed)
    /\ [][OneAttemptPerStep]_vars
    /\ <>LlmEnded

(***************************************************************************)
(* Properties of the web-search policy                                     *)
(***************************************************************************)
\* retrieveContext has returned to the request
Retrieved1 == req.pc \in {"web", "llm"} \/ Answered

\* the question forces no search: it has neither the words "from web" nor
\* asks for a colour code
PlainQuestion ==
    /\ ~ColorQuestion
    /\ ~Contains(toLowerCase(req.question), << "f", "r", "o", "m", " ", "w", "e", "b" >>)
    /\ ~Contains(toLowerCase(req.question), << "m", "o", "r", "e", " ", "d", "e", "t", "a", "i", "l" >>)

\* SEARCH_SIM_THRESHOLD when it is a finite number, 0.6 otherwise
ThresholdInForce ==
    IF env.SEARCH_SIM_THRESHOLD = << "0", ".", "9" >> THEN parseFloat(<< "0", ".", "9" >>)
    ELSE parseFloat(<< "0", ".", "6" >>)

Below(x) == NumLess(x, ThresholdInForce)

\* C17: when a text-only top similarity is available it alone is compared
\* with the threshold, so that a best text document below the threshold
\* triggers the web search even when the overall top match is at or above
\* the threshold; the overall top similarity is compared only when no text
\* similarity is available.
\* The similarity that was compared is the one the response reports.
C17_TextSimilarityDecides ==
    Retrieved1 /\ PlainQuestion =>
        /\ IsNumber(req.topTextSimilarity) =>
               /\ req.searched = Below(req.topTextSimilarity)
               /\ Answered => req.response.similarity = req.topTextSimilarity
        /\ ~IsNumber(req.topTextSimilarity) /\ IsNumber(req.topSimilarity) =>
               /\ req.searched = Below(req.topSimilarity)
               /\ Answered => req.response.similarity = req.topSimilarity

\* the best match is an image above the threshold, the best text document
\* is below it, and the web was searched
C17_Witness ==
    /\ Retrieved1 /\ PlainQuestion
    /\ env.db.vector = << ImgResistor, TextPlain >> /\ ~env.db.textFails
    /\ IsNumber(req.topTextSimilarity) /\ IsNumber(req.topSimilarity)
    /\ Below(req.topTextSimilarity) /\ ~Below(req.topSimilarity)
    /\ req.searched /\ web.pc = "done"

\* no text similarity: the overall top similarity is compared
C17_TopUsedWithoutText ==
    /\ Retrieved1 /\ PlainQuestion
    /\ ~IsNumber(req.topTextSimilarity) /\ IsNumber(req.topSimilarity)
    /\ Below(req.topSimilarity) /\ req.searched

\* word stands in text as a whole word
HasWholeWord(text, word) ==
    \E i \in 1..(Len(text) - Len(word) + 1) :
        /\ StartsWith(text, i, word)
        /\ ~WordAt(text, i - 1)
        /\ ~WordAt(text, i + Len(word))

\* the context holds one of the numbers of the question as a whole word
ContextHasQuestionNumber ==
    LET qDigits == DigitRuns(req.question, 1)
    IN  \E n \in 1..Len(qDigits) : HasWholeWord(req.context, qDigits[n])

\* the context holds a colour or band term
ContextHasColourTerm ==
    \E w \in { << "c", "o", "l", "o", "r" >>, << "c", "o", "l", "o", "u", "r" >>, << "b", "a", "n", "d" >> } :
        Contains(toLowerCase(req.context), w)

\* nothing but the heuristic could have triggered the search: the question
\* does not ask for the web and the similarity is not below the threshold
OnlyHeuristicLeft ==
    /\ ~Contains(toLowerCase(req.question), << "f", "r", "o", "m", " ", "w", "e", "b" >>)
    /\ ~Contains(toLowerCase(req.question), << "m", "o", "r", "e", " ", "d", "e", "t", "a", "i", "l" >>)
    /\ IsNumber(req.sim) => ~Below(req.sim)

\* C18: for a colour-code question the insufficient-mapping heuristic does
\* not force a web search when the retrieved context contains one of the
\* question's numbers as a whole word and also a colour or band term: with
\* no other reason to search, the web is not searched.
C18_NoSearchWhenContextMaps ==
    Retrieved1 /\ ColorQuestion /\ ContextHasQuestionNumber
        /\ ContextHasColourTerm /\ OnlyHeuristicLeft
    => ~req.searched

(***************************************************************************)
(* Properties of tavilyEduSearch                                           *)
(***************************************************************************)
\* the host of url, without a leading "www.", is one of the three domains
\* or a subdomain of one of them
HostAllowed(url) ==
    LET host == StripWww(hostname(url))
    IN  \E d \in { << "v", "l", "a", "b", ".", "c", "o", ".", "i", "n" >>, << "n", "p", "t", "e", "l", ".", "a", "c", ".", "i", "n" >>, << "w", "i", "k", "i", "p", "e", "d", "i", "a", ".", "o", "r", "g" >> } :
            host = d \/ endsWith(host, << "." >> \o d)

\* the results of the response that the blob shows
StitchedResults ==
    { n \in 1..Len(web.response.results) :
        Contains(web.result.webBlob,
                 << "U", "R", "L", ":", " " >> \o web.response.results[n].url \o << "\n", "C", "o", "n", "t", "e", "n", "t", ":", " " >>) }

\* at most 6 results are returned
AtMostSixCited ==
    web.pc = "done" =>
        /\ Len(web.result.citations) <= 6
        /\ web.response # NoCall => Cardinality(StitchedResults) <= 6

\* C19: every result that tavilyEduSearch stitches into the web blob or
\* returns as a citation has a URL whose hostname, after removing a leading
\* "www.", is vlab.co.in, nptel.ac.in, wikipedia.org or a subdomain of one
\* of them, and at most 6 results are returned.
C19_OnlyAllowedHostsCited ==
    web.pc = "done" =>
        /\ \A n \in 1..Len(web.result.citations) :
               HostAllowed(web.result.citations[n].url)
        /\ web.response # NoCall =>
               \A n \in StitchedResults :
                   HostAllowed(web.response.results[n].url)
        /\ AtMostSixCited

(***************************************************************************)
(* Properties of the image answer                                          *)
(***************************************************************************)
\* the image path p matches the component keyword of the question
MatchesKeyword(p) ==
    LET q == toLowerCase(req.question)
        s == toLowerCase(p)
    IN  \/ Contains(q, << "r", "e", "s", "i", "s", "t", "o", "r" >>) /\ Contains(s, << "r", "e", "s" >>)
        \/ Contains(q, << "c", "a", "p", "a", "c", "i", "t", "o", "r" >>) /\ Contains(s, << "c", "a", "p" >>)
        \/ Contains(q, << "i", "n", "d", "u", "c", "t", "o", "r" >>) /\ Contains(s, << "i", "n", "d", "u", "c", "t" >>)
        \/ /\ Contains(q, << "c", "o", "l", "o", "r" >>) \/ Contains(q, << "c", "o", "l", "o", "u", "r" >>)
           /\ \E w \in { << "c", "o", "l", "o", "r" >>, << "c", "o", "l", "o", "u", "r" >>, << "c", "o", "d", "e" >>, << "g", "u", "i", "d", "e" >>, << "c", "h", "a", "r", "t" >> } :
                  Contains(s, w)

\* the images the answer is taken from: those matching the keyword when
\* there are any, all retrieved images otherwise
ImagePool ==
    LET matching == SelectSeq(req.images, MatchesKeyword)
    IN  IF Len(matching) > 0 THEN matching ELSE req.images

\* the request was answered with images
ImageAnswered == Answered /\ ImageBranch

\* C20: a question with an image word, when retrieval returned an image
\* path, is answered with the images directly: at most 6 sources, each
\* beginning with "/images/", taken in order from the images that match the
\* question's component keyword when any do and from the first retrieved
\* images otherwise, and the model is not invoked for the request.
C20_ImagesReturnedDirectly ==
    ImageAnswered =>
        /\ llm = NoCall
        /\ Len(req.response.sources) >= 1
        /\ Len(req.response.sources) <= 6
        /\ Len(req.response.sources) = Min(6, Len(ImagePool))
        /\ \A i \in 1..Len(req.response.sources) :
               /\ StartsWith(req.response.sources[i], 1, << "/", "i", "m", "a", "g", "e", "s", "/" >>)
               /\ endsWith(req.response.sources[i], LastSegment(ImagePool[i]))
        /\ StartsWith(req.response.answer, 1, << "H", "e", "r", "e", " ", "a", "r", "e", " ", "r", "e", "l", "e", "v", "a", "n", "t", " ", "i", "m", "a", "g", "e", "s", ":" >>)

\* nine images and no keyword match: the first six are returned
C20_Witness ==
    /\ ImageAnswered
    /\ Len(req.images) > 6
    /\ ImagePool = req.images
    /\ Len(req.response.sources) = 6
    /\ req.response.sources[2] = << "/", "i", "m", "a", "g", "e", "s", "/", "i", "n", "d", "u", "c", "t", "o", "r", ".", "j", "p", "g" >>

\* a keyword match is preferred to the images retrieved before it
C20_KeywordPreferred ==
    /\ ImageAnswered
    /\ Len(req.images) > 6
    /\ Len(ImagePool) = 1
    /\ req.response.sources = << << "/", "i", "m", "a", "g", "e", "s", "/", "r", "e", "s", "i", "s", "t", "o", "r", "_", "c", "o", "l", "o", "r", "_", "c", "h", "a", "r", "t", ".", "p", "n", "g" >> >>

(***************************************************************************)
(* Properties of the entry of the chat route                               *)
(***************************************************************************)
\* the body has neither question nor message, or the one that is taken is
\* not a string or is the empty string
NoUsableQuestion ==
    \/ /\ req.body.question.ty \in {"undefined", "null"}
       /\ req.body.message.ty \in {"undefined", "null"}
    \/ QuestionOf(req.body).ty # "string"
    \/ QuestionOf(req.body).s = << >>

\* the question is a greeting and nothing else
OnlyGreeting ==
    /\ ~NoUsableQuestion
    /\ RegexTestI(greetRe, toLowerCase(trim(QuestionOf(req.body).s)))

\* the request has not retrieved, searched the web or called the model
NothingCalled ==
    /\ web = NoCall /\ llm = NoCall
    /\ ~req.searched
    /\ req.context = << >> /\ req.sources = << >> /\ req.images = << >>
    /\ req.topSimilarity = NoNumber /\ req.topTextSimilarity = NoNumber

\* C23: a request without a usable question (none, an empty one, one that
\* is not a string) is answered with status 400 and an error, a question
\* that is only a greeting with the fixed greeting and no sources; neither
\* ever reaches the retrieval, the web search or the model.
C23_RejectedOrGreetedAtEntry ==
    /\ req.pc # "none" /\ (NoUsableQuestion \/ OnlyGreeting) =>
           req.pc \in {"parse", "done"} /\ NothingCalled
    /\ req.pc = "done" /\ NoUsableQuestion =>
           /\ req.response.status = 400
           /\ req.response.error = MissingQuestion
           /\ ~req.response.hasAnswer
    /\ req.pc = "done" /\ OnlyGreeting =>
           /\ req.response.status = 200
           /\ req.response.error = << >>
           /\ req.response.answer = Greeting
           /\ req.response.sources = << >>

\* a question that is a number is rejected
C23_Witness ==
    /\ req.pc = "done"
    /\ req.body.question.ty = "number"
    /\ req.response.status = 400

\* "Good  morning!!" is greeted
C23_GreetedWitness ==
    /\ req.pc = "done"
    /\ OnlyGreeting
    /\ Len(QuestionOf(req.body).s) > 10
    /\ req.response.answer = Greeting

(***************************************************************************)
(* Properties of the context-or-general chat endpoint                      *)
(***************************************************************************)
\* the request has retrieved its context: req.sources are the snippets
RetrievedSnippets == req.pc \in {"first", "retry", "done"} /\ Len(req.calls) > 0

\* the query of the request has a focus keyword
FocusedQuery ==
    ContainsAnyI({ << "p", "r", "o", "c", "e", "d", "u", "r", "e" >>, << "p", "r", "e", "c", "a", "u", "t", "i", "o", "n" >>, << "a", "p", "p", "a", "r", "a", "t", "u", "s" >>, << "e", "q", "u", "i", "p", "m", "e", "n", "t" >>,
                   << "o", "b", "j", "e", "c", "t", "i", "v", "e" >>, << "a", "i", "m" >>, << "t", "h", "e", "o", "r", "y" >>, << "d", "e", "f", "i", "n", "i", "t", "i", "o", "n" >>,
                   << "p", "r", "i", "n", "c", "i", "p", "l", "e" >> },
                 req.question)

\* the passage contains a focus keyword
IsFocusPassage(t) ==
    ContainsAnyI({ << "p", "r", "o", "c", "e", "d", "u", "r", "e" >>, << "p", "r", "e", "c", "a", "u", "t", "i", "o", "n" >>, << "a", "p", "p", "a", "r", "a", "t", "u", "s" >>, << "e", "q", "u", "i", "p", "m", "e", "n", "t" >>,
                   << "o", "b", "j", "e", "c", "t", "i", "v", "e" >>, << "a", "i", "m" >>, << "t", "h", "e", "o", "r", "y" >>, << "d", "e", "f", "i", "n", "i", "t", "i", "o", "n" >>,
                   << "p", "r", "i", "n", "c", "i", "p", "l", "e" >> },
                 t)

\* the documents in the order the collection answered them
RetrievalOrder ==
    IF Len(env.db.hybrid) > 0 THEN env.db.hybrid ELSE env.db.vector

\* the place of the first document that holds the passage t
FirstPlace(t) ==
    CHOOSE k \in 0..Len(RetrievalOrder) :
        /\ k > 0 => RetrievalOrder[k].text.ty = "string"
                      /\ trim(RetrievalOrder[k].text.s) = trim(t)
        /\ \A j \in 1..(IF k = 0 THEN Len(RetrievalOrder) ELSE k - 1) :
               ~(RetrievalOrder[j].text.ty = "string"
                   /\ trim(RetrievalOrder[j].text.s) = trim(t))

AtMostFiveSnippets == Len(req.sources) <= 5

NoBlankSnippet == \A i \in 1..Len(req.sources) : ~IsBlank(req.sources[i])

NoDuplicateSnippet ==
    \A i, j \in 1..Len(req.sources) : i < j => req.sources[i] # req.sources[j]

\* the passages with a focus keyword stand first, and inside each group the
\* passages stand in the order of their retrieval
FocusFirstInOrder ==
    \A i, j \in 1..Len(req.sources) :
        i < j =>
            /\ IsFocusPassage(req.sources[j]) => IsFocusPassage(req.sources[i])
            /\ IsFocusPassage(req.sources[i]) = IsFocusPassage(req.sources[j])
                 => FirstPlace(req.sources[i]) < FirstPlace(req.sources[j])

\* C22: the snippets retrieveContext returns are at most 5, none is blank
\* and none stands twice; for a query with a focus keyword the passages
\* with a focus keyword precede the others and each group keeps the order
\* of the retrieval.
C22_SnippetsCleanAndFocusFirst ==
    RetrievedSnippets =>
        /\ AtMostFiveSnippets
        /\ NoBlankSnippet
        /\ NoDuplicateSnippet
        /\ FocusedQuery => FocusFirstInOrder

\* the same for the queries with a focus keyword only
C22_FocusedSnippetsClean ==
    RetrievedSnippets /\ FocusedQuery =>
        /\ AtMostFiveSnippets
        /\ NoBlankSnippet
        /\ NoDuplicateSnippet
        /\ FocusFirstInOrder

\* without a focus keyword there are never more than 5 snippets either
C22_PlainAtMostFive == RetrievedSnippets => AtMostFiveSnippets

\* a focused query over documents with a blank passage, a repeated passage
\* and focus passages behind others
C22_FocusedWitness ==
    /\ RetrievedSnippets /\ FocusedQuery
    /\ Len(RetrievalOrder) = 7
    /\ Len(req.sources) = 4
    /\ IsFocusPassage(req.sources[3]) /\ ~IsFocusPassage(req.sources[4])

\* the ninth document is retrieved for a focused query and stands first
C22_NinthWitness ==
    /\ RetrievedSnippets /\ FocusedQuery
    /\ Len(RetrievalOrder) = 9
    /\ Len(req.sources) = 5
    /\ FirstPlace(req.sources[1]) = 9

\* a call of generateAnswer begins in this step
CallStarts == llm' # llm /\ llm'.pc = "entry"

\* the calls the request has made are those its list holds, and the call in
\* progress or ended last is the last of them
CallsListed ==
    /\ llm.pc # "none" =>
           /\ Len(req.calls) > 0
           /\ llm.allowGeneral = req.calls[Len(req.calls)]
    /\ llm.pc = "none" => req.calls = << >>

\* every call that begins is one more in the list, and the list grows with
\* a call only
OneCallPerEntry ==
    /\ CallStarts => Len(req'.calls) = Len(req.calls) + 1
    /\ req'.calls # req.calls => CallStarts

\* a call after the first begins only when the first has returned an answer
\* that looks unknown, and it is made with allowGeneral = true
RetryOnlyWhenUnknown ==
    CallStarts /\ Len(req.calls) > 0 =>
        /\ Len(req.calls) = 1
        /\ llm.pc = "returned"
        /\ looksUnknownAnswer(llm.answer)
        /\ llm'.allowGeneral
        /\ llm'.question = req.question /\ llm'.context = req.context

\* when the second call has returned, its answer is the answer of the
\* response and no call begins
RetryAnswerReturned ==
    req.pc = "retry" /\ llm.pc = "returned" /\ req' # req =>
        /\ req'.pc = "done"
        /\ req'.response.status = 200
        /\ req'.response.answer = llm.answer
        /\ ~CallStarts

\* C21: a request calls generateAnswer at most twice; the second call is
\* made only when the answer of the first looks unknown, always with
\* allowGeneral = true, and its answer is returned as it is, without a
\* further call, also when it looks unknown too.
C21_AtMostOneRetry ==
    /\ [](Len(req.calls) <= 2 /\ CallsListed)
    /\ [](Len(req.calls) = 2 => req.calls[2])
    /\ [][OneCallPerEntry /\ RetryOnlyWhenUnknown /\ RetryAnswerReturned]_vars

\* a first call without general knowledge was followed by a second call and
\* the answer of the second, which looks unknown too, is the response
C21_Witness ==
    /\ req.pc = "done" /\ req.response.status = 200
    /\ req.calls = << FALSE, TRUE >>
    /\ llm.pc = "returned" /\ llm.allowGeneral
    /\ looksUnknownAnswer(req.response.answer)
    /\ req.response.answer = llm.answer

\* the answer of the first call is returned when it does not look unknown
C21_NoRetryWitness ==
    /\ req.pc = "done" /\ req.response.status = 200
    /\ req.calls = << FALSE >>
    /\ ~looksUnknownAnswer(req.response.answer)

====
